---- MODULE Spec2Model ----
(***************************************************************************)
(* A model of the ingestion pipeline and the HTTP retry engine of the      *)
(* axiom-go client: DetectContentType (axiom/datasets.go), the ingest      *)
(* calls with their pipe-coupled producer goroutine (axiom/datasets.go)    *)
(* and Client.Do (axiom/client.go).                                        *)
(***************************************************************************)
EXTENDS Integers, Sequences, FiniteSets, TLC

VARIABLES
    \* ---- DetectContentType ----
    input,          \* the bytes of the io.Reader handed to DetectContentType
    src,            \* the bytes the underlying reader r has not delivered yet
    buf,            \* bufio.Reader: the buffer's content b.buf[0:b.w]
    br,             \* bufio.Reader: the read position b.r
    bErr,           \* bufio.Reader: the sticky read error b.err ("nil" or "EOF")
    detPc,          \* "scan" (in the for loop), "returned", "read" (result consumed)
    detRet,         \* what DetectContentType returned: reader, typ, err
    out,            \* the bytes io.ReadAll got from the returned reader
    \* ---- the call: IngestEvents, IngestChannel or Call ----
    callKind,       \* which entry point runs
    token,          \* c.config.AccessToken(): "personal", "api" or "" (unset)
    id,             \* the dataset id argument
    events,         \* the events slice, or what the caller's sender puts on the channel
    pc,             \* where the calling goroutine is
    ret,            \* what the entry point returned: res, err
    ctxCancelled,   \* ctx.Done() is closed
    path,           \* the path argument of NewRequest, as tokens: "/", "?", words
    v,              \* Do's v: "nil", "writer" (an io.Writer) or "value" (a pointer to decode into)
    typ,            \* Ingest's ContentType argument
    enc,            \* Ingest's ContentEncoding argument
    orgID,          \* c.config.OrganizationID(): "" when unset
    body,           \* NewRequest's body: "nil", "reader" (an io.Reader) or "value"
    req,            \* NewRequest has returned a request
    hdr,            \* the header of the request, "none" for a header that is not set
    prodStarts,     \* how many producer goroutines the call has started
    \* ---- the events channel of IngestChannel ----
    chIdx,          \* how many events the sender has handed over
    chClosed,       \* close(events) has run
    senderCloses,   \* whether the caller's sender closes the channel after the last event
    \* ---- the producer goroutine (go func) and its zstd writer ----
    prodPc,         \* where the producer goroutine is
    prodIdx,        \* the range index over the events slice
    encErr,         \* the goroutine's encErr
    filling,        \* zstd.Encoder: the bytes of the block being filled
    zsw,            \* zstd.Encoder: frame started, sticky write error, closed
    pending,        \* the block a pw.Write is blocked on, and where the producer goes on
    encoded,        \* the events enc.Encode has accepted, in order
    \* ---- io.Pipe ----
    pipeRErr,       \* the read side is closed
    pipeWErr,       \* "open", or what pw.CloseWithError left: "EOF" or the error
    pwCloses,       \* how many times pw.CloseWithError has run
    \* ---- Client.Do ----
    attempts,       \* how many times the retried operation has run
    wire,           \* the request body the transport has read in the current attempt
    bodyDone,       \* the transport has read the request body to EOF in this attempt
    resp,           \* Do's resp: the attempt it stems from (0: nil), its status, its payload
    err,            \* the error of the latest run of the operation
    last,           \* the outcome of the latest attempt
    openBodies,     \* the attempts whose response body is obtained and not closed
    doRet,          \* what Do returned: resp, err and the fields of a structured error
    content,        \* what Do read of its final response: Content-Type, body, limit
    vOut,           \* what Do left in v: the bytes copied, or what was decoded
    streamRead,     \* the transport has read from the caller's stream (Ingest's r)
    \* ---- backoff.ExponentialBackOff and the clock ----
    now,            \* milliseconds since Do created the backoff
    currentInterval,
    timer,          \* the interval backoff.Retry is waiting for
    random,         \* what rand.Float64() yields in NextBackOff, in halves: 0, 1 or 2
    stopped,        \* NextBackOff has returned backoff.Stop
    \* ---- an ingest call up to its request URL: the ingest options ----
    oKind,          \* the entry point: "Ingest", "IngestEvents" or "IngestChannel"
    oToken,         \* c.config.AccessToken()
    oID,            \* the dataset id argument
    oGiven,         \* the options ...ingest.Option argument, as the setters' calls
    oIdx,           \* how many options the range loop has applied
    oOpts,          \* var opts ingest.Options
    oPc,            \* "idle", "apply", "addOptions", "newRequest", "sent", "served", "returned"
    oPath,          \* what AddOptions returned
    oQuery,         \* r.URL.Query() as the server's handler sees it
    oErr,           \* the error the call returned before sending, "nil" if none
    \* ---- the batching buffer of a logging adapter ----
    bLogged,        \* how many log events the logger has handed to the adapter: 1..bLogged
    bChan,          \* the adapter's event channel: events handed over and not yet taken
    bBuf,           \* the batch being filled
    bFlushes,       \* the batches handed to the ingestion client, in order, each with its trigger
    \* ---- a QueryLegacy call ----
    qKind,          \* opts.SaveKind
    qToken,         \* the client's token
    qID,            \* the dataset id
    qPc,            \* where the call is
    qPath,          \* the path AddOptions returned
    qBuilt,         \* how many requests NewRequest has built
    qSent,          \* how many requests Do has sent
    qRes,           \* the result returned: "nil" or "result"
    qErr,           \* the error returned, "nil" if none
    \* ---- two concurrent IngestEvents / IngestChannel calls on one client ----
    tKind,          \* per call: "IngestEvents" or "IngestChannel"
    tEvents,        \* per call: the events of its slice or channel
    tPc,            \* per call: where the call is
    tProdPc,        \* per call: where its producer is
    tIdx,           \* per call: how many events its producer has encoded
    tPw,            \* per call: the pipe its io.Pipe() returned, 0 before
    tPipes,         \* the pipes created so far: what was written, and whether closed
    tReqBody,       \* per call: the pipe that is the body of its request, 0 if none
    tBody,          \* per call: the events the server read from its request
    tResp,          \* per call: the status the server answered its request with
    tRet,           \* per call: the status the call returned
    \* ---- an ingest call and its span ----
    sKind,          \* the entry point, or "spanError" for spanError called by itself
    sRecording,     \* span.IsRecording()
    sOutcome,       \* what the body of the call comes to: where it ends, with which error or status
    sPc,            \* where the call is
    sRet,           \* what the call returned
    sSpan,          \* the span: its status, the errors recorded, its attributes, whether ended
    \* ---- NewClient ----
    nOptions,       \* the options supplied
    nEnv,           \* the environment: what it sets and whether incorporating it fails
    nPc,            \* where NewClient is
    nIdx,           \* options applied so far
    nConfig,        \* client.config and client.noEnv
    nRet,           \* what NewClient returned: the client and the error
    \* ---- ValidateCredentials ----
    vToken,         \* c.config.AccessToken()
    vOutcome,       \* what the server makes of a current-user call: the error of Do, the user
    vPc,            \* where ValidateCredentials is
    vCalls,         \* calls of Users.Current
    vRequests,      \* requests built
    vSent,          \* requests handed to Do
    vRet,           \* the error ValidateCredentials returned
    \* ---- Plan and its strings ----
    pKind,          \* what is done: String and planFromString, MarshalJSON and UnmarshalJSON,
                    \* planFromString or UnmarshalJSON of a given text
    pPlan,          \* the plan given
    pText,          \* the string given, character by character
    pPc,            \* where the run is
    pMid,           \* the string or the JSON text in between
    pRet            \* the plan and the error returned

detVars == <<input, src, buf, br, bErr, detPc, detRet, out>>

callVars == <<callKind, token, id, events, pc, ret, ctxCancelled>>

chanVars == <<chIdx, chClosed, senderCloses>>

prodVars == <<prodPc, prodIdx, encErr, filling, zsw, pending, encoded>>

pipeVars == <<pipeRErr, pipeWErr>>

doVars == <<attempts, wire, bodyDone, resp, err, last, openBodies, doRet>>

bckVars == <<now, currentInterval, timer, random, stopped>>

argVars == <<path, v, typ, enc, orgID, body>>

ingVars == <<callVars, chanVars, prodVars, pipeVars, doVars, bckVars, argVars,
             req, hdr, prodStarts, pwCloses, content, vOut, streamRead>>

optVars == <<oKind, oToken, oID, oGiven, oIdx, oOpts, oPc, oPath, oQuery, oErr>>

bufVars == <<bLogged, bChan, bBuf, bFlushes>>

queryVars == <<qKind, qToken, qID, qPc, qPath, qBuilt, qSent, qRes, qErr>>

twoVars == <<tKind, tEvents, tPc, tProdPc, tIdx, tPw, tPipes, tReqBody, tBody, tResp, tRet>>

traceVars == <<sKind, sRecording, sOutcome, sPc, sRet, sSpan>>

\* the side specifications, in two groups
earlyVars == <<optVars, bufVars, queryVars, twoVars>>

newClientVars == <<nOptions, nEnv, nPc, nIdx, nConfig, nRet>>

credVars == <<vToken, vOutcome, vPc, vCalls, vRequests, vSent, vRet>>

planVars == <<pKind, pPlan, pText, pPc, pMid, pRet>>

lateVars == <<traceVars, newClientVars, credVars, planVars>>

\* what the calls of the main specifications leave alone
sideVars == <<earlyVars, lateVars>>

\* what a call with its span leaves alone
traceOthers == <<detVars, ingVars, earlyVars, newClientVars, credVars, planVars>>

\* what NewClient leaves alone
newClientOthers == <<detVars, ingVars, earlyVars, traceVars, credVars, planVars>>

\* what ValidateCredentials leaves alone
credOthers == <<detVars, ingVars, earlyVars, traceVars, newClientVars, planVars>>

\* what the conversions of Plan leave alone
planOthers == <<detVars, ingVars, earlyVars, traceVars, newClientVars, credVars>>

vars == <<detVars, ingVars, sideVars>>

(***************************************************************************)
(* Bounds of the model.                                                    *)
(***************************************************************************)
MaxLen == 3         \* longest input of DetectContentType, in bytes
MaxChunk == 2       \* most bytes one Read of the underlying reader delivers
MaxEvents == 2      \* most events of one ingest call
BlockSize == 3      \* zstd block size, in tokens of the encoded stream
SlowAttempt == 3000 \* how long a slow HTTP attempt takes, in milliseconds

(***************************************************************************)
(* Sequence helpers.                                                       *)
(***************************************************************************)
SeqsUpTo(S, n) == UNION {[1..k -> S] : k \in 0..n}

Take(s, n) == SubSeq(s, 1, n)

Drop(s, n) == SubSeq(s, n + 1, Len(s))

Min(a, b) == IF a < b THEN a ELSE b

(***************************************************************************)
(* Bytes and runes.  The alphabet holds the ASCII bytes the detector       *)
(* distinguishes, two lead bytes of 2-byte UTF-8 sequences and two         *)
(* continuation bytes:                                                     *)
(*   32 ' '  91 '['  123 '{'  97 'a'  34 '"'  49 '1'                       *)
(*   194,160 = U+00A0 (no-break space)   195,169 = U+00E9 (e acute)        *)
(*   195,160 = U+00E0 (a grave)          194,169 = U+00A9 (copyright)      *)
(***************************************************************************)
Bytes == {32, 91, 123, 97, 34, 49, 194, 195, 160, 169}

RuneSelf == 128

UTFMax == 4

RuneError == 65533

BufSize == 4096

IsLead2(b) == b >= 194 /\ b <= 223

IsCont(b) == b >= 128 /\ b <= 191

\* utf8.FullRune, for 1- and 2-byte sequences
FullRune(p) ==
    /\ Len(p) >= 1
    /\ \/ ~IsLead2(p[1])
       \/ Len(p) >= 2

\* utf8.DecodeRune, for 1- and 2-byte sequences: <<rune, size>>
DecodeRune(p) ==
    IF p[1] < RuneSelf THEN <<p[1], 1>>
    ELSE IF ~IsLead2(p[1]) THEN <<RuneError, 1>>
    ELSE IF Len(p) < 2 THEN <<RuneError, 1>>
    ELSE IF ~IsCont(p[2]) THEN <<RuneError, 1>>
    ELSE <<(p[1] % 32) * 64 + (p[2] % 64), 2>>

\* unicode.IsLetter on the Latin-1 range (RuneError is no letter)
IsLetter(c) ==
    \/ c >= 65 /\ c <= 90
    \/ c >= 97 /\ c <= 122
    \/ c \in {170, 181, 186}
    \/ c >= 192 /\ c <= 214
    \/ c >= 216 /\ c <= 246
    \/ c >= 248 /\ c <= 255

\* unicode.IsSpace on the Latin-1 range
IsSpace(c) == c \in {9, 10, 11, 12, 13, 32, 133, 160}

(***************************************************************************)
(* ContentType and the detector's errors.                                  *)
(***************************************************************************)
NoContentType == 0

JSON == 1

NDJSON == 2

CSV == 3

ErrNoBeginning == "couldn't find beginning of supported ingestion format"

ErrCannotDetermine == "cannot determine content type"

NilReader == [nil |-> TRUE, alreadyRead |-> <<>>, rest |-> <<>>]

\* io.MultiReader(bytes.NewReader(buf), r)
MultiReader(already, r) == [nil |-> FALSE, alreadyRead |-> already, rest |-> r]

\* io.ReadAll of a reader returned by MultiReader
ReadAll(rd) == rd.alreadyRead \o rd.rest

NoReturn == [reader |-> NilReader, typ |-> NoContentType, err |-> "pending"]

\* a detector that takes an object for an array
ClassifyBraceAsArray(c) ==
    IF c = 91 \/ c = 123 THEN JSON
    ELSE IF IsLetter(c) \/ c = 34 THEN CSV
    ELSE NoContentType

\* the branch of the if/else-if chain that the rune c takes
Classify(c) ==
    IF c = 91 THEN JSON
    ELSE IF c = 123 THEN NDJSON
    ELSE IF IsLetter(c) \/ c = 34 THEN CSV
    ELSE NoContentType

\* bufio.Reader.Buffered and Peek(Buffered()): the unread bytes b.buf[b.r:b.w]
Unread(b, r) == Drop(b, r)

\* a ReadRune that fills only an empty buffer, and so decodes a rune split
\* between two reads of the underlying reader from its first byte alone
NeedFillOnlyWhenEmpty(b, r, e) ==
    /\ Unread(b, r) = <<>>
    /\ e = "nil"

\* the loop condition of bufio.Reader.ReadRune: fill once more
NeedFill(b, r, e) ==
    /\ Len(Unread(b, r)) < UTFMax
    /\ ~FullRune(Unread(b, r))
    /\ e = "nil"
    /\ Len(Unread(b, r)) < BufSize

\* bufio.Reader.UnreadRune: b.r -= b.lastRuneSize
UnreadRune(r, size) == r - size

\* br.Peek(br.Buffered()) after UnreadRune, as bytes.NewReader(buf)
AlreadyRead(b, r, size) == Unread(b, UnreadRune(r, size))

DetInit ==
    /\ input \in SeqsUpTo(Bytes, MaxLen)
    /\ src = input
    /\ buf = <<>>
    /\ br = 0
    /\ bErr = "nil"
    /\ detPc = "scan"
    /\ detRet = NoReturn
    /\ out = <<>>

\* bufio.Reader.fill, called by ReadRune while no full rune is buffered: slide
\* the unread bytes to the front, then one Read of the underlying reader,
\* which delivers 1..MaxChunk bytes or EOF
DetFill ==
    /\ detPc = "scan"
    /\ NeedFill(buf, br, bErr)
    /\ IF src = <<>>
       THEN /\ bErr' = "EOF"
            /\ buf' = Unread(buf, br)
            /\ UNCHANGED src
       ELSE \E n \in 1..Min(MaxChunk, Len(src)) :
                /\ buf' = Unread(buf, br) \o Take(src, n)
                /\ src' = Drop(src, n)
                /\ UNCHANGED bErr
    /\ br' = 0
    /\ UNCHANGED <<input, detPc, detRet, out>>
    /\ UNCHANGED ingVars
    /\ UNCHANGED sideVars

\* one iteration of the for loop once ReadRune has what it needs: ReadRune,
\* the if/else-if chain and, on break, UnreadRune, Peek(Buffered()) and
\* MultiReader
DetReadRune ==
    /\ detPc = "scan"
    /\ ~NeedFill(buf, br, bErr)
    /\ IF Unread(buf, br) = <<>>
       THEN \* b.r == b.w: ReadRune returns b.readErr(), which is io.EOF
            /\ detRet' = [reader |-> NilReader, typ |-> NoContentType, err |-> ErrNoBeginning]
            /\ detPc' = "returned"
            /\ UNCHANGED br
       ELSE LET c == DecodeRune(Unread(buf, br))[1]
                size == DecodeRune(Unread(buf, br))[2]
            IN  IF Classify(c) # NoContentType
                THEN /\ detRet' = [reader |-> MultiReader(AlreadyRead(buf, br + size, size), src),
                                   typ |-> Classify(c), err |-> "nil"]
                     /\ detPc' = "returned"
                     /\ br' = UnreadRune(br + size, size)
                ELSE IF IsSpace(c)
                THEN /\ br' = br + size
                     /\ UNCHANGED <<detPc, detRet>>
                ELSE /\ detRet' = [reader |-> NilReader, typ |-> NoContentType,
                                   err |-> ErrCannotDetermine]
                     /\ detPc' = "returned"
                     /\ br' = br + size
    /\ UNCHANGED <<input, src, buf, bErr, out>>
    /\ UNCHANGED ingVars
    /\ UNCHANGED sideVars

\* the caller reads the returned reader to the end (io.ReadAll)
DetReadAll ==
    /\ detPc = "returned"
    /\ detRet.err = "nil"
    /\ out' = ReadAll(detRet.reader)
    /\ detPc' = "read"
    /\ UNCHANGED <<input, src, buf, br, bErr, detRet>>
    /\ UNCHANGED ingVars
    /\ UNCHANGED sideVars

DetNext == DetFill \/ DetReadRune \/ DetReadAll

\* the detector at rest, for the specifications of the other components
DetIdle ==
    /\ input = <<>>
    /\ src = <<>>
    /\ buf = <<>>
    /\ br = 0
    /\ bErr = "nil"
    /\ detPc = "idle"
    /\ detRet = NoReturn
    /\ out = <<>>

(***************************************************************************)
(* Events and their encoding: json.Encoder over zstd.Encoder over io.Pipe. *)
(* An event is a name; "bad" holds a value encoding/json cannot marshal.   *)
(* The encoded stream is a sequence of tokens: the object of an event and  *)
(* the newline json.Encoder.Encode ends it with.                           *)
(***************************************************************************)
Events == {"e1", "e2", "bad"}

Newline == "\n"

Marshalable(e) == e # "bad"

\* json.Encoder.Encode: the bytes of one call, the object and a newline
EncodeJSON(e) == <<e, Newline>>

ErrUnsupportedType == "json: unsupported type"

ErrClosedPipe == "io: read/write on closed pipe"

ErrContextCanceled == "context canceled"

ErrTransport == "transport failure"

ErrUnprivilegedToken == "using API token for non-ingest or non-query operation"

ErrNotFound == "not found"

NoBlock == [d |-> <<>>, last |-> FALSE, then |-> "none", ev |-> "none"]

\* a zstd frame as written to the pipe: blocks in order, the last one marked
RECURSIVE Decompress(_)
Decompress(w) == IF w = <<>> THEN <<>> ELSE w[1].d \o Decompress(Tail(w))

\* a complete frame: nothing at all (no input, no frame), or blocks of which
\* exactly the final one is the last block
CompleteFrame(w) ==
    \/ w = <<>>
    \/ /\ w[Len(w)].last
       /\ \A i \in 1..(Len(w) - 1) : ~w[i].last

\* the server's NDJSON reading of a decompressed body: one object per line
RECURSIVE ParseNDJSON(_)
ParseNDJSON(t) ==
    IF Len(t) < 2 THEN <<>>
    ELSE IF t[2] = Newline THEN <<t[1]>> \o ParseNDJSON(Drop(t, 2))
    ELSE ParseNDJSON(Tail(t))

(***************************************************************************)
(* ingest.Status and the values the calls return.                          *)
(***************************************************************************)
NilStatus == [nil |-> TRUE, ingested |-> 0, failed |-> 0, failures |-> <<>>]

\* a status the decoder filled without its list of failures
StatusWithoutFailures(n, f) ==
    [nil |-> FALSE, ingested |-> n, failed |-> Len(f), failures |-> <<>>]

\* the ingest.Status decoded from the server's answer: n events ingested,
\* and the failures f, one per rejected event
StatusWith(n, f) == [nil |-> FALSE, ingested |-> n, failed |-> Len(f), failures |-> f]

Status(n) == StatusWith(n, <<>>)

\* &ingest.Status{}
ZeroStatus == Status(0)

NoRet == [res |-> NilStatus, err |-> "pending"]

NilResp == [id |-> 0, status |-> 0, ingested |-> 0, failures |-> <<>>]

\* the events of a body of n events the ingest endpoint may reject, by their
\* position; the body of a stream Ingest is the caller's
Rejections(kind, st, n) ==
    IF st # 200 \/ kind \in {"Call", "NewRequest"} THEN {<<>>}
    ELSE IF kind = "Ingest" THEN {<<>>, <<1, 2>>}
    ELSE {f \in {<<>>, <<1>>, <<1, 2>>} : Len(f) <= n}

NoOutcome == [kind |-> "none", status |-> 0]

httpStatusLimitExceeded == 430

Statuses == {200, 400, 401, 403, 404, 409, 429, httpStatusLimitExceeded, 500}

(***************************************************************************)
(* What Do reads of a response: the Content-Type header, the body and the  *)
(* limit metadata newResponse takes from the rate limit headers.  A header *)
(* value and a body are sequences of tokens.  The tokens of a body: "{",   *)
(* "}", "msg" (the member "message":"boom"), "null", "1" and the newline.  *)
(***************************************************************************)
mediaTypeJSON == <<"application/json">>

ContentTypeValues ==
    { <<>>, <<"text/plain">>, mediaTypeJSON, mediaTypeJSON \o <<"; charset=utf-8">> }

Bodies ==
    { <<>>,
      <<"{", "msg", "}", Newline>>,
      <<"{", "}", Newline>>,
      <<"{", Newline, "}", Newline>>,
      <<"null">>,
      <<"1">>,
      <<"{", "msg">> }

\* the limit, remaining and reset of a response, as one value
Limits == {"limitA", "limitB"}

NoContent == [ct |-> <<>>, body |-> <<>>, limit |-> "none"]

\* every body under application/json, two bodies under the other headers
Contents ==
    {[ct |-> mediaTypeJSON, body |-> b, limit |-> "limitA"] : b \in Bodies}
    \cup {[ct |-> c, body |-> b, limit |-> "limitA"] :
            c \in ContentTypeValues \ {mediaTypeJSON},
            b \in {<<>>, <<"{", "msg", "}", Newline>>}}

\* the statuses whose header and body Do does not look at
WellKnown == {401, 403, 404, 409, 429, httpStatusLimitExceeded}

\* what the ingest endpoint answers with: a JSON object, or plain text
IngestContents ==
    {[ct |-> mediaTypeJSON, body |-> <<"{", "msg", "}", Newline>>, limit |-> "limitA"],
     [ct |-> <<"text/plain">>, body |-> <<>>, limit |-> "limitA"]}

\* what the final response of the given status may hold, at the ingest
\* endpoint and at the endpoints of Call
ContentsFor(kind, status) ==
    IF kind # "Call" THEN IngestContents
    ELSE IF status \in WellKnown
    THEN {[ct |-> c, body |-> b, limit |-> l] :
            c \in {<<"text/plain">>, mediaTypeJSON},
            b \in {<<>>, <<"null">>},
            l \in IF status \in {429, httpStatusLimitExceeded} THEN Limits ELSE {"limitA"}}
    ELSE Contents

\* the v Do is given
Sinks == {"nil", "writer", "value"}

NoOut == [written |-> <<>>, decoded |-> "none"]

\* the fields of the structured errors: Error.Status, Error.Message,
\* LimitError.Limit
NoDetail == [status |-> 0, message |-> <<>>, limit |-> "none"]

ErrUnauthenticated == "unauthenticated"

ErrUnauthorized == "unauthorized"

ErrExists == "exists"

ErrUndecodable == "cannot decode response with unknown content type"

\* http.StatusText
StatusText(status) ==
    CASE status = 400 -> <<"Bad Request">>
      [] status = 401 -> <<"Unauthorized">>
      [] status = 403 -> <<"Forbidden">>
      [] status = 404 -> <<"Not Found">>
      [] status = 409 -> <<"Conflict">>
      [] status = 429 -> <<"Too Many Requests">>
      [] OTHER -> <<>>

\* the JSON value json.Decoder.Decode reads off a body: it skips whitespace
\* and stops after the first value
JSONValue(b) ==
    LET t == SelectSeq(b, LAMBDA x : x # Newline)
    IN  IF t = <<>> THEN "EOF"
        ELSE IF t[1] = "null" THEN "null"
        ELSE IF t[1] = "1" THEN "number"
        ELSE IF Len(t) >= 2 /\ t[1] = "{" /\ t[2] = "}" THEN "object"
        ELSE IF Len(t) >= 3 /\ t[1] = "{" /\ t[2] = "msg" /\ t[3] = "}" THEN "objectMsg"
        ELSE "syntax"

\* the error of Decode into a struct pointer, "nil" if none
DecodeErr(b) ==
    CASE JSONValue(b) = "EOF" -> "EOF"
      [] JSONValue(b) = "syntax" -> "json: syntax error"
      [] JSONValue(b) = "number" -> "json: cannot unmarshal number"
      [] OTHER -> "nil"

\* the Message member of a decoded object
DecodedMessage(b) == IF JSONValue(b) = "objectMsg" THEN <<"boom">> ELSE <<>>

\* a fallback that drops the newlines
RemoveNewlines(b) == SelectSeq(b, LAMBDA x : x # Newline)

\* strings.ReplaceAll(buf.String(), "\n", " ")
ReplaceNewlines(b) == [i \in 1..Len(b) |-> IF b[i] = Newline THEN " " ELSE b[i]]

(***************************************************************************)
(* NewRequest's gate for API tokens.  A path is a sequence of tokens: "/",  *)
(* "?" (where the query starts), "%3F" (an escaped question mark) and      *)
(* words, which hold neither a slash nor a question mark.                  *)
(***************************************************************************)
DatasetIDs == {"test", ""}

\* strings.HasPrefix, on sequences of tokens
HasPrefix(s, prefix) == Len(s) >= Len(prefix) /\ Take(s, Len(prefix)) = prefix

\* s.basePath of the Datasets service, with the slash that follows it
DatasetsBasePath == <<"/", "api", "/", "v1", "/", "datasets", "/">>

TokensBasePath == <<"/", "api", "/", "v1", "/", "tokens", "/">>

\* s.basePath + "/" + id + "/ingest", with no ingest options
IngestPath(i) == DatasetsBasePath \o (IF i = "" THEN <<>> ELSE <<i>>) \o <<"/", "ingest">>

\* the paths NewRequest is given
Paths ==
    { <<"/">>,
      <<"/", "api", "/", "v1", "/", "datasets">>,
      DatasetsBasePath \o <<"test">>,
      DatasetsBasePath \o <<"test", "/">>,
      DatasetsBasePath \o <<"test", "/", "ingest">>,
      DatasetsBasePath \o <<"test", "/", "query">>,
      DatasetsBasePath \o <<"test", "/", "elastic">>,
      DatasetsBasePath \o <<"test", "/", "test", "/", "ingest">>,
      DatasetsBasePath \o <<"_apl">>,
      DatasetsBasePath \o <<"_apl", "?", "format">>,
      DatasetsBasePath \o <<"_apl", "%3F", "format">>,
      DatasetsBasePath \o <<"_apl", "%3F">>,
      TokensBasePath \o <<"ingest", "/", "validate">>,
      TokensBasePath \o <<"personal", "/", "validate">>,
      TokensBasePath \o <<"validate">> }

\* the paths Call is given with an API token
CallPaths == {<<"/">>, <<"/", "api", "/", "v1", "/", "datasets">>, IngestPath("test")}

\* where the query of a request URI starts: the first "?", or past the end
RECURSIVE QueryStart(_)
QueryStart(p) ==
    IF p = <<>> \/ p[1] = "?" THEN 1 ELSE 1 + QueryStart(Tail(p))

\* url.ParseRequestURI(path) and ResolveReference: endpoint.Path is the part
\* before the query, unescaped
EndpointPath(p) ==
    [i \in 1..(QueryStart(p) - 1) |-> IF p[i] = "%3F" THEN "?" ELSE p[i]]

\* [^/]+
NoSlashes(s) == Len(s) >= 1 /\ \A i \in 1..Len(s) : s[i] # "/"

\* (\?.+)?$
QuerySuffix(s) == s = <<>> \/ (Len(s) >= 2 /\ s[1] = "?")

\* ([^/]+/(ingest|query)|_apl)
DatasetOperation(s) ==
    \/ s = <<"_apl">>
    \/ /\ Len(s) >= 3
       /\ NoSlashes(Take(s, Len(s) - 2))
       /\ s[Len(s) - 1] = "/"
       /\ s[Len(s)] \in {"ingest", "query"}

\* validOnlyAPITokenPaths.MatchString
ValidOnlyAPITokenPaths(p) ==
    /\ HasPrefix(p, DatasetsBasePath)
    /\ \E n \in 1..(Len(p) - Len(DatasetsBasePath)) :
        /\ DatasetOperation(SubSeq(p, Len(DatasetsBasePath) + 1, Len(DatasetsBasePath) + n))
        /\ QuerySuffix(Drop(p, Len(DatasetsBasePath) + n))

IsAPIToken(t) == t = "api"

\* a NewRequest without the API token gate
NewRequestErrNoGate(t, p) == "nil"

\* the error of NewRequest for the path p, "nil" if none
NewRequestErr(t, p) ==
    IF IsAPIToken(t) /\ ~ValidOnlyAPITokenPaths(EndpointPath(p))
    THEN ErrUnprivilegedToken ELSE "nil"

(***************************************************************************)
(* backoff.ExponentialBackOff as Do configures it.                         *)
(***************************************************************************)
InitialInterval == 200

Multiplier == 2

MaxElapsedTime == 10000

MaxInterval == 60000

\* the draws of rand.Float64() a call may see, in halves: every draw of one
\* call is the low end, the middle or the high end
Randoms == {0, 1, 2}

\* getRandomValueFromInterval with the default RandomizationFactor 0.5: a
\* value of [cur - cur/2, cur + cur/2]
RandomValueFromInterval(rnd, cur) == (cur - cur \div 2) + rnd * (cur \div 2)

\* incrementCurrentInterval
IncrementCurrentInterval(cur) ==
    IF cur >= MaxInterval \div Multiplier THEN MaxInterval ELSE cur * Multiplier

\* a backoff with no MaxElapsedTime: it never stops
BudgetUnlimited(elapsed, next) == FALSE

\* NextBackOff's test: the budget is exhausted
BudgetExhausted(elapsed, next) == MaxElapsedTime # 0 /\ elapsed + next > MaxElapsedTime

\* the clock, which nothing reads beyond the budget
Later(t, d) == Min(t + d, MaxElapsedTime + 1)

AttemptDurations == {0, SlowAttempt}

\* the token and dataset id of a call: one pair that passes NewRequest's gate
\* and one that does not
TokensAndIDs == {<<"personal", "test">>, <<"api", "">>}

HasPipe == callKind \in {"IngestEvents", "IngestChannel"}

Identity == 1

Gzip == 2

Zstd == 3

ErrUnknownContentType == "unknown content type"

ErrUnknownContentEncoding == "unknown content encoding"

\* the ContentType and ContentEncoding values Ingest is given: the defined
\* ones, the zero value and one past the last
ContentTypes == {NoContentType, JSON, NDJSON, CSV, CSV + 1}

ContentEncodings == {0, Identity, Gzip, Zstd, Zstd + 1}

\* every pair with an undefined value, and three pairs of defined ones
TypEncs ==
    {te \in ContentTypes \X ContentEncodings :
        \/ te[1] \notin {JSON, NDJSON, CSV}
        \/ te[2] \notin {Identity, Gzip, Zstd}
        \/ te \in {<<JSON, Identity>>, <<NDJSON, Zstd>>, <<CSV, Gzip>>}}

\* c.config.OrganizationID()
OrgIDs == {"", "org"}

\* what NewRequest is given as body: nil, an io.Reader, or a value to encode
BodyKinds == {"nil", "reader", "value"}

defaultMediaType == "application/octet-stream"

mediaTypeNDJSON == "application/x-ndjson"

\* c.userAgent
UserAgent == "axiom-go"

\* a test that takes every token there is for a personal one
IsSomeToken(t) == t \in {"personal", "api"}

IsPersonalToken(t) == t = "personal"

\* a request without any header; hasBody tells whether it has a body
NoHeader ==
    [accept |-> "none", userAgent |-> "none", authorization |-> "none",
     organizationID |-> "none", contentType |-> "none", contentEncoding |-> "none",
     hasBody |-> FALSE]

\* a NewRequest that sets the organization ID header for every token
RequestHeaderOrgAlways(t, o, b) ==
    [accept |-> "application/json",
     userAgent |-> UserAgent,
     authorization |-> IF t # "" THEN <<"Bearer", t>> ELSE "none",
     organizationID |-> IF o # "" THEN o ELSE "none",
     contentType |-> CASE b = "value" -> "application/json"
                       [] b = "reader" -> defaultMediaType
                       [] OTHER -> "none",
     contentEncoding |-> "none",
     hasBody |-> b # "nil"]

\* the header NewRequest gives the request, for the token t, the
\* organization ID o and the body b
RequestHeader(t, o, b) ==
    [accept |-> "application/json",
     userAgent |-> UserAgent,
     authorization |-> IF t # "" THEN <<"Bearer", t>> ELSE "none",
     organizationID |-> IF IsPersonalToken(t) /\ o # "" THEN o ELSE "none",
     contentType |-> CASE b = "value" -> "application/json"
                       [] b = "reader" -> defaultMediaType
                       [] OTHER -> "none",
     contentEncoding |-> "none",
     hasBody |-> b # "nil"]

\* ContentType.String(), from the line comments of the constants
TypString(t) ==
    CASE t = JSON -> "application/json"
      [] t = NDJSON -> mediaTypeNDJSON
      [] t = CSV -> "text/csv"
      [] OTHER -> "ContentType(%d)"

\* ContentEncoding.String(), from the line comments of the constants
EncString(e) ==
    CASE e = Identity -> ""
      [] e = Gzip -> "gzip"
      [] e = Zstd -> "zstd"
      [] OTHER -> "ContentEncoding(%d)"

\* an Ingest that sets the Content-Encoding header for every encoding
IngestHeaderEncAlways(h) ==
    IF typ \notin {JSON, NDJSON, CSV} THEN h
    ELSE IF enc \in {Identity, Gzip, Zstd}
    THEN [h EXCEPT !.contentType = TypString(typ), !.contentEncoding = EncString(enc)]
    ELSE [h EXCEPT !.contentType = TypString(typ)]

\* Ingest: the header after the switch on typ and the switch on enc
IngestHeader(h) ==
    IF typ \notin {JSON, NDJSON, CSV} THEN h
    ELSE IF enc \in {Gzip, Zstd}
    THEN [h EXCEPT !.contentType = TypString(typ), !.contentEncoding = EncString(enc)]
    ELSE [h EXCEPT !.contentType = TypString(typ)]

\* IngestEvents and IngestChannel: Content-Type and Content-Encoding are set
\* to NDJSON and Zstd
EventsHeader(h) ==
    [h EXCEPT !.contentType = TypString(NDJSON), !.contentEncoding = EncString(Zstd)]

IngInit ==
    /\ callKind \in {"IngestEvents", "IngestChannel", "Ingest", "Call", "NewRequest"}
    /\ \E ti \in TokensAndIDs \cup {<<"", "test">>} : token = ti[1] /\ id = ti[2]
    /\ token = "" => callKind = "NewRequest"
    /\ events \in SeqsUpTo(Events, MaxEvents)
    /\ ~HasPipe => events = <<>>
    /\ path \in Paths \cup {IngestPath(i) : i \in DatasetIDs}
    /\ CASE callKind = "NewRequest" -> path \in Paths
         [] callKind = "Call" -> IF IsAPIToken(token) THEN path \in CallPaths ELSE path = <<"/">>
         [] OTHER -> path = IngestPath(id)
    /\ v \in Sinks
    /\ CASE callKind = "NewRequest" -> v = "nil"
         [] callKind = "Call" -> IsAPIToken(token) => v = "nil"
         [] OTHER -> v = "value"
    /\ \E te \in TypEncs \cup {<<NoContentType, 0>>} : typ = te[1] /\ enc = te[2]
    /\ CASE callKind = "Ingest" -> <<typ, enc>> \in TypEncs
         [] callKind \in {"Call", "NewRequest"} -> typ = NoContentType /\ enc = 0
         [] OTHER -> typ = NDJSON /\ enc = Zstd
    /\ orgID \in OrgIDs
    /\ callKind # "NewRequest" => orgID = "org"
    /\ body \in BodyKinds
    /\ CASE callKind = "NewRequest" -> TRUE
         [] callKind = "Call" -> body = "nil"
         [] OTHER -> body = "reader"
    /\ req = FALSE
    /\ hdr = NoHeader
    /\ prodStarts = 0
    /\ pwCloses = 0
    /\ content = NoContent
    /\ vOut = NoOut
    /\ streamRead = FALSE
    /\ senderCloses \in BOOLEAN
    /\ callKind # "IngestChannel" => senderCloses = FALSE
    /\ pc = "start"
    /\ ret = NoRet
    /\ ctxCancelled = FALSE
    /\ chIdx = 0
    /\ chClosed = FALSE
    /\ prodPc = "none"
    /\ prodIdx = 0
    /\ encErr = "nil"
    /\ filling = <<>>
    /\ zsw = [started |-> FALSE, err |-> "nil", closed |-> FALSE]
    /\ pending = NoBlock
    /\ encoded = <<>>
    /\ pipeRErr = FALSE
    /\ pipeWErr = "open"
    /\ attempts = 0
    /\ wire = <<>>
    /\ bodyDone = FALSE
    /\ resp = NilResp
    /\ err = "nil"
    /\ last = NoOutcome
    /\ openBodies = {}
    /\ doRet = [resp |-> NilResp, err |-> "pending", detail |-> NoDetail]
    /\ now = 0
    /\ currentInterval = InitialInterval
    /\ timer = 0
    /\ random \in Randoms
    /\ stopped = FALSE

\* the ingest machine at rest, for the specifications of the other components
IngIdle ==
    /\ callKind = "Call"
    /\ token = "personal"
    /\ id = "test"
    /\ events = <<>>
    /\ path = <<"/">>
    /\ v = "nil"
    /\ typ = NoContentType
    /\ enc = 0
    /\ orgID = "org"
    /\ body = "nil"
    /\ req = FALSE
    /\ hdr = NoHeader
    /\ prodStarts = 0
    /\ pwCloses = 0
    /\ content = NoContent
    /\ vOut = NoOut
    /\ streamRead = FALSE
    /\ senderCloses = FALSE
    /\ pc = "idle"
    /\ ret = NoRet
    /\ ctxCancelled = FALSE
    /\ chIdx = 0
    /\ chClosed = FALSE
    /\ prodPc = "none"
    /\ prodIdx = 0
    /\ encErr = "nil"
    /\ filling = <<>>
    /\ zsw = [started |-> FALSE, err |-> "nil", closed |-> FALSE]
    /\ pending = NoBlock
    /\ encoded = <<>>
    /\ pipeRErr = FALSE
    /\ pipeWErr = "open"
    /\ attempts = 0
    /\ wire = <<>>
    /\ bodyDone = FALSE
    /\ resp = NilResp
    /\ err = "nil"
    /\ last = NoOutcome
    /\ openBodies = {}
    /\ doRet = [resp |-> NilResp, err |-> "pending", detail |-> NoDetail]
    /\ now = 0
    /\ currentInterval = InitialInterval
    /\ timer = 0
    /\ random = 0
    /\ stopped = FALSE

(***************************************************************************)
(* Scheduling.  A step of the producer that touches nothing but the        *)
(* goroutine's own variables (creating the writer, encoding a slice's next *)
(* event, closing the writer) commutes with every step of the other        *)
(* goroutines; such a step is taken before the others go on.  Steps on the *)
(* pipe and on the events channel interleave freely.                       *)
(***************************************************************************)
ProducerLocal ==
    \/ prodPc \in {"new", "close"}
    \/ prodPc = "loop" /\ callKind = "IngestEvents"

ProducerYields == ~ProducerLocal

(***************************************************************************)
(* The entry points up to Do (IngestEvents, IngestChannel, Ingest, Call).  *)
(***************************************************************************)

\* IngestEvents: if len(events) == 0 { return &ingest.Status{}, nil }
IngestEventsEmpty ==
    /\ pc = "start"
    /\ callKind = "IngestEvents"
    /\ Len(events) = 0
    /\ ret' = [res |-> ZeroStatus, err |-> "nil"]
    /\ pc' = "returned"
    /\ UNCHANGED <<callKind, token, id, events, ctxCancelled>>
    /\ UNCHANGED <<chanVars, prodVars, pipeVars, doVars, bckVars, detVars>>
    /\ UNCHANGED argVars
    /\ UNCHANGED sideVars
    /\ UNCHANGED <<hdr, prodStarts, req, pwCloses, content, vOut, streamRead>>

\* an IngestEvents without the len(events) == 0 return
StartProducerAlways ==
    /\ pc = "start"
    /\ callKind \in {"IngestEvents", "IngestChannel"}
    /\ prodPc' = "new"
    /\ pc' = "newRequest"
    /\ UNCHANGED <<callKind, token, id, events, ret, ctxCancelled>>
    /\ prodStarts' = prodStarts + 1
    /\ UNCHANGED <<prodIdx, encErr, filling, zsw, pending, encoded>>
    /\ UNCHANGED <<chanVars, pipeVars, doVars, bckVars, detVars>>
    /\ UNCHANGED argVars
    /\ UNCHANGED sideVars
    /\ UNCHANGED <<hdr, req, pwCloses, content, vOut, streamRead>>

\* an Ingest that starts a producer as the slice and channel calls do
StartProducerForStream ==
    /\ pc = "start"
    /\ \/ callKind = "IngestEvents" /\ Len(events) # 0
       \/ callKind \in {"IngestChannel", "Ingest"}
    /\ prodPc' = "new"
    /\ pc' = "newRequest"
    /\ UNCHANGED <<callKind, token, id, events, ret, ctxCancelled>>
    /\ prodStarts' = prodStarts + 1
    /\ UNCHANGED <<prodIdx, encErr, filling, zsw, pending, encoded>>
    /\ UNCHANGED <<chanVars, pipeVars, doVars, bckVars, detVars>>
    /\ UNCHANGED argVars
    /\ UNCHANGED sideVars
    /\ UNCHANGED <<hdr, req, pwCloses, content, vOut, streamRead>>

\* IngestEvents with events, IngestChannel: AddOptions, io.Pipe(), go func()
StartProducer ==
    /\ pc = "start"
    /\ \/ callKind = "IngestEvents" /\ Len(events) # 0
       \/ callKind = "IngestChannel"
    /\ prodPc' = "new"
    /\ pc' = "newRequest"
    /\ UNCHANGED <<callKind, token, id, events, ret, ctxCancelled>>
    /\ prodStarts' = prodStarts + 1
    /\ UNCHANGED <<prodIdx, encErr, filling, zsw, pending, encoded>>
    /\ UNCHANGED <<chanVars, pipeVars, doVars, bckVars, detVars>>
    /\ UNCHANGED argVars
    /\ UNCHANGED sideVars
    /\ UNCHANGED <<hdr, req, pwCloses, content, vOut, streamRead>>

\* Call, or NewRequest called by itself: straight to NewRequest, with no body
CallStart ==
    /\ pc = "start"
    /\ callKind \in {"Call", "NewRequest"}
    /\ pc' = "newRequest"
    /\ UNCHANGED <<callKind, token, id, events, ret, ctxCancelled>>
    /\ UNCHANGED <<chanVars, prodVars, pipeVars, doVars, bckVars, detVars>>
    /\ UNCHANGED argVars
    /\ UNCHANGED sideVars
    /\ UNCHANGED <<hdr, prodStarts, req, pwCloses, content, vOut, streamRead>>

\* Ingest: AddOptions, then NewRequest with the caller's stream r as the body
IngestStart ==
    /\ pc = "start"
    /\ callKind = "Ingest"
    /\ pc' = "newRequest"
    /\ UNCHANGED <<callKind, token, id, events, ret, ctxCancelled>>
    /\ UNCHANGED <<chanVars, prodVars, pipeVars, doVars, bckVars, detVars>>
    /\ UNCHANGED argVars
    /\ UNCHANGED sideVars
    /\ UNCHANGED <<hdr, prodStarts, req, pwCloses, content, vOut, streamRead>>

\* an Ingest that checks typ only
IngestValidateTypOnly ==
    /\ pc = "validate"
    /\ IF typ \notin {JSON, NDJSON, CSV}
       THEN /\ ret' = [res |-> NilStatus, err |-> ErrUnknownContentType]
            /\ pc' = "returned"
       ELSE /\ pc' = "op"
            /\ UNCHANGED ret
    /\ hdr' = IngestHeader(hdr)
    /\ UNCHANGED <<callKind, token, id, events, ctxCancelled>>
    /\ UNCHANGED <<chanVars, prodVars, pipeVars, doVars, bckVars, detVars>>
    /\ UNCHANGED argVars
    /\ UNCHANGED sideVars
    /\ UNCHANGED <<prodStarts, req, pwCloses, content, vOut, streamRead>>

\* Ingest: the switch on typ, then the switch on enc
IngestValidate ==
    /\ pc = "validate"
    /\ IF typ \notin {JSON, NDJSON, CSV}
       THEN /\ ret' = [res |-> NilStatus, err |-> ErrUnknownContentType]
            /\ pc' = "returned"
       ELSE IF enc \notin {Identity, Gzip, Zstd}
       THEN /\ ret' = [res |-> NilStatus, err |-> ErrUnknownContentEncoding]
            /\ pc' = "returned"
       ELSE /\ pc' = "op"
            /\ UNCHANGED ret
    /\ hdr' = IngestHeader(hdr)
    /\ UNCHANGED <<callKind, token, id, events, ctxCancelled>>
    /\ UNCHANGED <<chanVars, prodVars, pipeVars, doVars, bckVars, detVars>>
    /\ UNCHANGED argVars
    /\ UNCHANGED sideVars
    /\ UNCHANGED <<prodStarts, req, pwCloses, content, vOut, streamRead>>

\* s.client.NewRequest(ctx, http.MethodPost, path, pr) and the error return;
\* IngestEvents and IngestChannel then set their two headers on the request
NewRequest ==
    /\ ProducerYields
    /\ pc = "newRequest"
    /\ IF NewRequestErr(token, path) # "nil"
       THEN /\ ret' = [res |-> NilStatus, err |-> NewRequestErr(token, path)]
            /\ pc' = "returned"
            /\ UNCHANGED <<hdr, req>>
       ELSE /\ pc' = CASE callKind = "Ingest" -> "validate"
                        [] callKind = "NewRequest" -> "returned"
                        [] OTHER -> "op"
            /\ req' = TRUE
            /\ hdr' = IF HasPipe THEN EventsHeader(RequestHeader(token, orgID, body))
                      ELSE RequestHeader(token, orgID, body)
            /\ ret' = IF callKind = "NewRequest" THEN [res |-> NilStatus, err |-> "nil"] ELSE ret
    /\ UNCHANGED <<callKind, token, id, events, ctxCancelled>>
    /\ UNCHANGED <<chanVars, prodVars, pipeVars, doVars, bckVars, detVars>>
    /\ UNCHANGED argVars
    /\ UNCHANGED sideVars
    /\ UNCHANGED <<prodStarts, pwCloses, content, vOut, streamRead>>

\* the caller's context is cancelled
Cancel ==
    /\ ProducerYields
    /\ pc \notin {"idle", "returned", "panicked"}
    /\ ~ctxCancelled
    /\ ctxCancelled' = TRUE
    /\ UNCHANGED <<callKind, token, id, events, pc, ret>>
    /\ UNCHANGED <<chanVars, prodVars, pipeVars, doVars, bckVars, detVars>>
    /\ UNCHANGED argVars
    /\ UNCHANGED sideVars
    /\ UNCHANGED <<hdr, prodStarts, req, pwCloses, content, vOut, streamRead>>

\* the caller's sender goroutine: close(events) after the last send
SenderClose ==
    /\ ProducerYields
    /\ callKind = "IngestChannel"
    /\ pc # "idle"
    /\ senderCloses
    /\ ~chClosed
    /\ chIdx = Len(events)
    /\ chClosed' = TRUE
    /\ UNCHANGED <<chIdx, senderCloses>>
    /\ UNCHANGED <<callVars, prodVars, pipeVars, doVars, bckVars, detVars>>
    /\ UNCHANGED argVars
    /\ UNCHANGED sideVars
    /\ UNCHANGED <<hdr, prodStarts, req, pwCloses, content, vOut, streamRead>>

(***************************************************************************)
(* The producer goroutine.                                                 *)
(***************************************************************************)

\* zsw, wErr := zstd.NewWriter(pw): without options it cannot fail
ProdNewWriter ==
    /\ prodPc = "new"
    /\ prodPc' = "loop"
    /\ UNCHANGED <<prodIdx, encErr, filling, zsw, pending, encoded>>
    /\ UNCHANGED <<callVars, chanVars, pipeVars, doVars, bckVars, detVars>>
    /\ UNCHANGED argVars
    /\ UNCHANGED sideVars
    /\ UNCHANGED <<hdr, prodStarts, req, pwCloses, content, vOut, streamRead>>

\* an encoder that forgets the part of a line that did not fit the block
EncodeDropsRest(e) ==
    IF ~Marshalable(e)
    THEN /\ encErr' = ErrUnsupportedType
         /\ prodPc' = "close"
         /\ UNCHANGED <<filling, zsw, pending, encoded>>
    ELSE IF Len(filling) + Len(EncodeJSON(e)) < BlockSize
    THEN /\ filling' = filling \o EncodeJSON(e)
         /\ encoded' = Append(encoded, e)
         /\ prodPc' = "loop"
         /\ UNCHANGED <<encErr, zsw, pending>>
    ELSE /\ pending' = [d |-> filling \o Take(EncodeJSON(e), BlockSize - Len(filling)),
                        last |-> FALSE, then |-> "loop", ev |-> e]
         /\ filling' = <<>>
         /\ prodPc' = "write"
         /\ UNCHANGED <<encErr, zsw, encoded>>

\* a producer that on a marshalling error closes the pipe at once
EncodeErrorSkipsClose(e) ==
    IF ~Marshalable(e)
    THEN /\ encErr' = ErrUnsupportedType
         /\ prodPc' = "closePipe"
         /\ UNCHANGED <<filling, zsw, pending, encoded>>
    ELSE IF Len(filling) + Len(EncodeJSON(e)) < BlockSize
    THEN /\ filling' = filling \o EncodeJSON(e)
         /\ encoded' = Append(encoded, e)
         /\ prodPc' = "loop"
         /\ UNCHANGED <<encErr, zsw, pending>>
    ELSE /\ pending' = [d |-> filling \o Take(EncodeJSON(e), BlockSize - Len(filling)),
                        last |-> FALSE, then |-> "loop", ev |-> e]
         /\ filling' = Drop(EncodeJSON(e), BlockSize - Len(filling))
         /\ prodPc' = "write"
         /\ UNCHANGED <<encErr, zsw, encoded>>

\* enc.Encode(event): json.Marshal, then zsw.Write of the line, which hands a
\* full block to pw.Write and keeps the rest
Encode(e) ==
    IF ~Marshalable(e)
    THEN /\ encErr' = ErrUnsupportedType
         /\ prodPc' = "close"
         /\ UNCHANGED <<filling, zsw, pending, encoded>>
    ELSE IF Len(filling) + Len(EncodeJSON(e)) < BlockSize
    THEN /\ filling' = filling \o EncodeJSON(e)
         /\ encoded' = Append(encoded, e)
         /\ prodPc' = "loop"
         /\ UNCHANGED <<encErr, zsw, pending>>
    ELSE /\ pending' = [d |-> filling \o Take(EncodeJSON(e), BlockSize - Len(filling)),
                        last |-> FALSE, then |-> "loop", ev |-> e]
         /\ filling' = Drop(EncodeJSON(e), BlockSize - Len(filling))
         /\ prodPc' = "write"
         /\ UNCHANGED <<encErr, zsw, encoded>>

\* IngestEvents: for _, event := range events { enc.Encode(event) ... }
ProdEncodeNext ==
    /\ prodPc = "loop"
    /\ callKind = "IngestEvents"
    /\ prodIdx < Len(events)
    /\ prodIdx' = prodIdx + 1
    /\ Encode(events[prodIdx + 1])
    /\ UNCHANGED <<callVars, chanVars, pipeVars, doVars, bckVars, detVars>>
    /\ UNCHANGED argVars
    /\ UNCHANGED sideVars
    /\ UNCHANGED <<hdr, prodStarts, req, pwCloses, content, vOut, streamRead>>

\* IngestEvents: the range is over
ProdRangeEnd ==
    /\ prodPc = "loop"
    /\ callKind = "IngestEvents"
    /\ prodIdx = Len(events)
    /\ prodPc' = "close"
    /\ UNCHANGED <<prodIdx, encErr, filling, zsw, pending, encoded>>
    /\ UNCHANGED <<callVars, chanVars, pipeVars, doVars, bckVars, detVars>>
    /\ UNCHANGED argVars
    /\ UNCHANGED sideVars
    /\ UNCHANGED <<hdr, prodStarts, req, pwCloses, content, vOut, streamRead>>

\* IngestChannel: for event := range events, a receive that meets the
\* sender's send
ProdReceive ==
    /\ prodPc = "loop"
    /\ callKind = "IngestChannel"
    /\ chIdx < Len(events)
    /\ chIdx' = chIdx + 1
    /\ Encode(events[chIdx + 1])
    /\ UNCHANGED <<prodIdx, chClosed, senderCloses>>
    /\ UNCHANGED <<callVars, pipeVars, doVars, bckVars, detVars>>
    /\ UNCHANGED argVars
    /\ UNCHANGED sideVars
    /\ UNCHANGED <<hdr, prodStarts, req, pwCloses, content, vOut, streamRead>>

\* IngestChannel: the range ends on the closed channel
ProdReceiveClosed ==
    /\ prodPc = "loop"
    /\ callKind = "IngestChannel"
    /\ chClosed
    /\ prodPc' = "close"
    /\ UNCHANGED <<prodIdx, encErr, filling, zsw, pending, encoded>>
    /\ UNCHANGED <<callVars, chanVars, pipeVars, doVars, bckVars, detVars>>
    /\ UNCHANGED argVars
    /\ UNCHANGED sideVars
    /\ UNCHANGED <<hdr, prodStarts, req, pwCloses, content, vOut, streamRead>>

\* pw.Write on a pipe whose read side is closed: ErrClosedPipe, which
\* zsw.Write hands to enc.Encode (encErr, break) and zsw.Close to closeErr
ProdWriteClosedPipe ==
    /\ prodPc = "write"
    /\ pipeRErr
    /\ zsw' = [zsw EXCEPT !.err = ErrClosedPipe, !.closed = (pending.then = "closePipe")]
    /\ encErr' = IF encErr = "nil" THEN ErrClosedPipe ELSE encErr
    /\ prodPc' = IF pending.then = "loop" THEN "close" ELSE "closePipe"
    /\ pending' = NoBlock
    /\ UNCHANGED <<prodIdx, filling, encoded>>
    /\ UNCHANGED <<callVars, chanVars, pipeVars, doVars, bckVars, detVars>>
    /\ UNCHANGED argVars
    /\ UNCHANGED sideVars
    /\ UNCHANGED <<hdr, prodStarts, req, pwCloses, content, vOut, streamRead>>

\* closeErr := zsw.Close(); encErr == nil => encErr = closeErr
ProdCloseWriter ==
    /\ prodPc = "close"
    /\ IF zsw.err # "nil"
       THEN \* the encoder keeps its write error and writes nothing more
            /\ encErr' = IF encErr = "nil" THEN zsw.err ELSE encErr
            /\ zsw' = [zsw EXCEPT !.closed = TRUE]
            /\ prodPc' = "closePipe"
            /\ UNCHANGED <<filling, pending>>
       ELSE IF ~zsw.started /\ filling = <<>>
       THEN \* no input: no frame is written
            /\ zsw' = [zsw EXCEPT !.closed = TRUE]
            /\ prodPc' = "closePipe"
            /\ UNCHANGED <<encErr, filling, pending>>
       ELSE /\ pending' = [d |-> filling, last |-> TRUE, then |-> "closePipe", ev |-> "none"]
            /\ filling' = <<>>
            /\ prodPc' = "write"
            /\ UNCHANGED <<encErr, zsw>>
    /\ UNCHANGED <<prodIdx, encoded>>
    /\ UNCHANGED <<callVars, chanVars, pipeVars, doVars, bckVars, detVars>>
    /\ UNCHANGED argVars
    /\ UNCHANGED sideVars
    /\ UNCHANGED <<hdr, prodStarts, req, pwCloses, content, vOut, streamRead>>

\* a producer whose close error overrides the encode error
ProdClosePipeCloseErrFirst ==
    /\ prodPc = "closePipe"
    /\ pipeWErr' = IF pipeWErr # "open" THEN pipeWErr
                   ELSE IF zsw.err # "nil" THEN zsw.err
                   ELSE IF encErr = "nil" THEN "EOF" ELSE encErr
    /\ pwCloses' = pwCloses + 1
    /\ prodPc' = "done"
    /\ UNCHANGED pipeRErr
    /\ UNCHANGED <<prodIdx, encErr, filling, zsw, pending, encoded>>
    /\ UNCHANGED <<callVars, chanVars, doVars, bckVars, detVars>>
    /\ UNCHANGED argVars
    /\ UNCHANGED sideVars
    /\ UNCHANGED <<hdr, prodStarts, req, content, vOut, streamRead>>

\* _ = pw.CloseWithError(encErr)
ProdClosePipe ==
    /\ prodPc = "closePipe"
    /\ pipeWErr' = IF pipeWErr # "open" THEN pipeWErr
                   ELSE IF encErr = "nil" THEN "EOF" ELSE encErr
    /\ pwCloses' = pwCloses + 1
    /\ prodPc' = "done"
    /\ UNCHANGED pipeRErr
    /\ UNCHANGED <<prodIdx, encErr, filling, zsw, pending, encoded>>
    /\ UNCHANGED <<callVars, chanVars, doVars, bckVars, detVars>>
    /\ UNCHANGED argVars
    /\ UNCHANGED sideVars
    /\ UNCHANGED <<hdr, prodStarts, req, content, vOut, streamRead>>

(***************************************************************************)
(* Client.Do: backoff.Retry around c.httpClient.Do(req), then the deferred *)
(* drain-and-close of resp and the mapping of the final response.          *)
(***************************************************************************)

\* whether reading the request body fails at once: the pipe's read side is
\* closed (an earlier attempt's transport closed it), or the producer closed
\* the write side with an error
BodyReadError ==
    IF pipeRErr THEN ErrClosedPipe
    ELSE IF pipeWErr \notin {"open", "EOF"} THEN pipeWErr
    ELSE "nil"

\* the transport closes the request body when the attempt ends: pr.Close()
CloseRequestBody == HasPipe \/ pipeRErr

\* a closure that also retries client errors
RetryableFrom400(status) == status >= 400

\* what decides whether the operation's result is retried: the closure's
\* "if code := resp.StatusCode; code >= 500"
Retryable(status) == status >= 500

ErrStatusCode == "got status code >= 500"

\* a Retry that returns the error of an earlier run of the operation
RetryKeepsError(e) == e

\* what backoff.Retry returns once the operation returned nil: nil, whatever
\* the runs before returned
RetryDone(e) == "nil"

\* backoff.Retry after the operation failed at time t: next = b.NextBackOff();
\* Stop ends the retrying with the operation's error, otherwise the timer is
\* started.  bck carries no context, so Retry waits on context.Background().
AfterFailure(t) ==
    /\ IF BudgetExhausted(t, RandomValueFromInterval(random, currentInterval))
       THEN /\ stopped' = TRUE
            /\ pc' = "final"
            /\ timer' = 0
       ELSE /\ timer' = RandomValueFromInterval(random, currentInterval)
            /\ pc' = "backoff"
            /\ UNCHANGED stopped
    /\ currentInterval' = IncrementCurrentInterval(currentInterval)
    /\ now' = t

\* the operation runs at time t: c.httpClient.Do(req); with ctx already done
\* the send fails at once with ctx.Err() and closes the request body
StartAttempt(t) ==
    /\ attempts' = attempts + 1
    /\ wire' = <<>>
    /\ bodyDone' = ~HasPipe
    /\ streamRead' = (streamRead \/ (callKind = "Ingest" /\ ~ctxCancelled))
    /\ IF ctxCancelled
       THEN /\ err' = ErrContextCanceled
            /\ last' = [kind |-> "ctx", status |-> 0]
            /\ pipeRErr' = CloseRequestBody
            /\ AfterFailure(t)
       ELSE /\ pc' = "http"
            /\ now' = t
            /\ timer' = 0
            /\ UNCHANGED <<err, last, pipeRErr, currentInterval, stopped>>
    /\ UNCHANGED <<resp, openBodies, doRet, pipeWErr, random>>
    /\ UNCHANGED <<callKind, token, id, events, ret, ctxCancelled>>
    /\ UNCHANGED <<chanVars, prodVars, detVars>>
    /\ UNCHANGED argVars
    /\ UNCHANGED sideVars
    /\ UNCHANGED <<hdr, prodStarts, req, pwCloses, content, vOut>>

\* Do: backoff.Retry runs the operation for the first time
DoAttempt ==
    /\ pc = "op"
    /\ ProducerYields
    /\ StartAttempt(now)

\* the timer of backoff.Retry fires: the operation runs again
DoRetry ==
    /\ pc = "backoff"
    /\ ProducerYields
    /\ StartAttempt(Later(now, timer))

\* the transport reads from pr the block a pw.Write is blocked on; the write
\* returns and the producer goes on
TransportRead ==
    /\ pc = "http"
    /\ HasPipe /\ ~bodyDone /\ ~pipeRErr
    /\ prodPc = "write"
    /\ wire' = Append(wire, [d |-> pending.d, last |-> pending.last])
    /\ zsw' = [zsw EXCEPT !.started = TRUE, !.closed = (pending.then = "closePipe")]
    /\ encoded' = IF pending.then = "loop" THEN Append(encoded, pending.ev) ELSE encoded
    /\ prodPc' = pending.then
    /\ pending' = NoBlock
    /\ UNCHANGED <<prodIdx, encErr, filling>>
    /\ UNCHANGED <<attempts, bodyDone, resp, err, last, openBodies, doRet>>
    /\ UNCHANGED <<callVars, chanVars, pipeVars, bckVars, detVars>>
    /\ UNCHANGED argVars
    /\ UNCHANGED sideVars
    /\ UNCHANGED <<hdr, prodStarts, req, pwCloses, content, vOut, streamRead>>

\* the transport reads io.EOF from pr: the request body is complete
TransportReadEOF ==
    /\ pc = "http"
    /\ ProducerYields
    /\ HasPipe /\ ~bodyDone
    /\ BodyReadError = "nil" /\ pipeWErr = "EOF"
    /\ bodyDone' = TRUE
    /\ UNCHANGED <<attempts, wire, resp, err, last, openBodies, doRet>>
    /\ UNCHANGED <<callVars, chanVars, prodVars, pipeVars, bckVars, detVars>>
    /\ UNCHANGED argVars
    /\ UNCHANGED sideVars
    /\ UNCHANGED <<hdr, prodStarts, req, pwCloses, content, vOut, streamRead>>

\* the transport's read of the request body fails: the attempt fails with
\* that error
TransportReadError ==
    /\ pc = "http"
    /\ ProducerYields
    /\ HasPipe /\ ~bodyDone
    /\ BodyReadError # "nil"
    /\ err' = BodyReadError
    /\ last' = [kind |-> "fail", status |-> 0]
    /\ pipeRErr' = CloseRequestBody
    /\ \E d \in AttemptDurations : AfterFailure(Later(now, d))
    /\ UNCHANGED <<attempts, wire, bodyDone, resp, openBodies, doRet, pipeWErr, random>>
    /\ UNCHANGED <<callKind, token, id, events, ret, ctxCancelled>>
    /\ UNCHANGED <<chanVars, prodVars, detVars>>
    /\ UNCHANGED argVars
    /\ UNCHANGED sideVars
    /\ UNCHANGED <<hdr, prodStarts, req, pwCloses, content, vOut, streamRead>>

\* the connection fails (dial, reset, timeout): httpClient.Do returns an error
TransportFail ==
    /\ pc = "http"
    /\ ProducerYields
    /\ err' = ErrTransport
    /\ last' = [kind |-> "fail", status |-> 0]
    /\ pipeRErr' = CloseRequestBody
    /\ \E d \in AttemptDurations : AfterFailure(Later(now, d))
    /\ UNCHANGED <<attempts, wire, bodyDone, resp, openBodies, doRet, pipeWErr, random>>
    /\ UNCHANGED <<callKind, token, id, events, ret, ctxCancelled>>
    /\ UNCHANGED <<chanVars, prodVars, detVars>>
    /\ UNCHANGED argVars
    /\ UNCHANGED sideVars
    /\ UNCHANGED <<hdr, prodStarts, req, pwCloses, content, vOut, streamRead>>

\* ctx is done while the request is in flight: httpClient.Do returns ctx.Err()
TransportCancelled ==
    /\ pc = "http"
    /\ ProducerYields
    /\ ctxCancelled
    /\ err' = ErrContextCanceled
    /\ last' = [kind |-> "ctx", status |-> 0]
    /\ pipeRErr' = CloseRequestBody
    /\ AfterFailure(now)
    /\ UNCHANGED <<attempts, wire, bodyDone, resp, openBodies, doRet, pipeWErr, random>>
    /\ UNCHANGED <<callKind, token, id, events, ret, ctxCancelled>>
    /\ UNCHANGED <<chanVars, prodVars, detVars>>
    /\ UNCHANGED argVars
    /\ UNCHANGED sideVars
    /\ UNCHANGED <<hdr, prodStarts, req, pwCloses, content, vOut, streamRead>>

\* the server answers: resp = newResponse(httpResp), and the closure returns
\* an error for a status >= 500, which backoff.Retry takes as a failure.  A
\* 200 is an answer to a body read to its end; other statuses may come before
\* the body is complete.  No answer comes to a request whose body cannot be
\* read.
ServerRespond ==
    /\ pc = "http"
    /\ ProducerYields
    /\ HasPipe /\ ~bodyDone => BodyReadError = "nil"
    /\ \E st \in Statuses, d \in AttemptDurations :
        /\ st = 200 => bodyDone
        /\ \E f \in Rejections(callKind, st, Len(ParseNDJSON(Decompress(wire)))) :
            resp' = [id |-> attempts, status |-> st,
                     ingested |-> IF st = 200
                                  THEN Len(ParseNDJSON(Decompress(wire))) - Len(f) ELSE 0,
                     failures |-> f]
        /\ last' = [kind |-> "resp", status |-> st]
        /\ IF Retryable(st)
           THEN /\ err' = ErrStatusCode
                /\ AfterFailure(Later(now, d))
           ELSE /\ err' = RetryDone(err)
                /\ pc' = "final"
                /\ UNCHANGED <<now, currentInterval, timer, stopped>>
    /\ openBodies' = openBodies \cup {attempts}
    /\ pipeRErr' = CloseRequestBody
    /\ UNCHANGED <<attempts, wire, bodyDone, doRet, pipeWErr, random>>
    /\ UNCHANGED <<callKind, token, id, events, ret, ctxCancelled>>
    /\ UNCHANGED <<chanVars, prodVars, detVars>>
    /\ UNCHANGED argVars
    /\ UNCHANGED sideVars
    /\ UNCHANGED <<hdr, prodStarts, req, pwCloses, content, vOut, streamRead>>

\* a switch whose limit case names 429 only
LimitStatusesOnly429 == {429}

\* case http.StatusTooManyRequests, httpStatusLimitExceeded
LimitStatuses == {429, httpStatusLimitExceeded}

\* a switch without the case for 403
TypedErrorNoForbidden(status) ==
    CASE status = 401 -> ErrUnauthenticated
      [] status = 404 -> ErrNotFound
      [] status = 409 -> ErrExists
      [] OTHER -> "none"

\* a switch that sends 403 where 401 goes
TypedErrorForbiddenAs401(status) ==
    CASE status = 401 -> ErrUnauthenticated
      [] status = 403 -> ErrUnauthenticated
      [] status = 404 -> ErrNotFound
      [] status = 409 -> ErrExists
      [] OTHER -> "none"

\* the sentinel error the switch returns for the status, "none" for a
\* status it has no such case for
TypedError(status) ==
    CASE status = 401 -> ErrUnauthenticated
      [] status = 403 -> ErrUnauthorized
      [] status = 404 -> ErrNotFound
      [] status = 409 -> ErrExists
      [] OTHER -> "none"

\* Do on a final response with a status >= 400: the switch on the well-known
\* codes, the generic error of a response that is not JSON, and the decoding
\* of an error response.  Decode(&errResp) on a JSON null sets errResp to nil
\* and returns no error; errResp.Message then dereferences the nil pointer.
ErrorResponse(c) ==
    IF TypedError(resp.status) # "none"
    THEN [err |-> TypedError(resp.status), detail |-> NoDetail, out |-> NoOut]
    ELSE IF resp.status \in LimitStatuses
    THEN [err |-> "LimitError", detail |-> [NoDetail EXCEPT !.limit = c.limit], out |-> NoOut]
    ELSE IF ~HasPrefix(c.ct, mediaTypeJSON)
    THEN [err |-> "Error",
          detail |-> [status |-> resp.status, message |-> StatusText(resp.status), limit |-> "none"],
          out |-> NoOut]
    ELSE IF DecodeErr(c.body) # "nil"
    THEN [err |-> "error decoding error response",
          detail |-> [status |-> resp.status, message |-> <<DecodeErr(c.body)>>, limit |-> "none"],
          out |-> NoOut]
    ELSE IF JSONValue(c.body) = "null"
    THEN [err |-> "panic", detail |-> NoDetail, out |-> NoOut]
    ELSE [err |-> "Error",
          detail |-> [status |-> resp.status,
                      message |-> IF DecodedMessage(c.body) = <<>>
                                  THEN ReplaceNewlines(c.body)
                                  ELSE DecodedMessage(c.body),
                      limit |-> "none"],
          out |-> NoOut]

\* a Do that looks at the Content-Type before it looks for a writer
SuccessResponseTypedFirst(c) ==
    IF v = "nil" THEN [err |-> "nil", detail |-> NoDetail, out |-> NoOut]
    ELSE IF ~HasPrefix(c.ct, mediaTypeJSON)
    THEN [err |-> ErrUndecodable, detail |-> NoDetail, out |-> NoOut]
    ELSE IF v = "writer"
    THEN [err |-> "nil", detail |-> NoDetail, out |-> [written |-> c.body, decoded |-> "none"]]
    ELSE IF DecodeErr(c.body) # "nil"
    THEN [err |-> DecodeErr(c.body), detail |-> NoDetail, out |-> NoOut]
    ELSE [err |-> "nil", detail |-> NoDetail,
          out |-> [written |-> <<>>,
                   decoded |-> IF JSONValue(c.body) = "null" THEN "none" ELSE "object"]]

\* Do on a final response with a status < 400: io.Copy into a writer, Decode
\* into another value if the response is JSON, nothing for a nil v
SuccessResponse(c) ==
    IF v = "nil" THEN [err |-> "nil", detail |-> NoDetail, out |-> NoOut]
    ELSE IF v = "writer"
    THEN [err |-> "nil", detail |-> NoDetail, out |-> [written |-> c.body, decoded |-> "none"]]
    ELSE IF ~HasPrefix(c.ct, mediaTypeJSON)
    THEN [err |-> ErrUndecodable, detail |-> NoDetail, out |-> NoOut]
    ELSE IF DecodeErr(c.body) # "nil"
    THEN [err |-> DecodeErr(c.body), detail |-> NoDetail, out |-> NoOut]
    ELSE [err |-> "nil", detail |-> NoDetail,
          out |-> [written |-> <<>>,
                   decoded |-> IF JSONValue(c.body) = "null" THEN "none" ELSE "object"]]

FinalResponse(c) ==
    IF resp.status >= 400 THEN ErrorResponse(c) ELSE SuccessResponse(c)

\* a Do that drops the response when the retrying failed
DoResultNoRespOnError(c) ==
    IF err # "nil"
    THEN [resp |-> NilResp, err |-> err, detail |-> NoDetail, out |-> NoOut]
    ELSE [resp |-> resp, err |-> FinalResponse(c).err,
          detail |-> FinalResponse(c).detail, out |-> FinalResponse(c).out]

\* what Do returns once backoff.Retry is back: resp with the retry error, or
\* with what the final response maps to
DoResult(c) ==
    IF err # "nil"
    THEN [resp |-> resp, err |-> err, detail |-> NoDetail, out |-> NoOut]
    ELSE [resp |-> resp, err |-> FinalResponse(c).err,
          detail |-> FinalResponse(c).detail, out |-> FinalResponse(c).out]

\* the deferred func of Do: if resp != nil, drain and close resp.Body
DeferredClose(open) == IF resp.id # 0 THEN open \ {resp.id} ELSE open

\* what the entry point makes of Do's result: the error, or for the ingest
\* calls the status decoded into res
EntryResult(r) ==
    IF r.err # "nil" THEN [res |-> NilStatus, err |-> r.err]
    ELSE IF callKind = "Call" THEN [res |-> NilStatus, err |-> "nil"]
    ELSE IF r.out.decoded = "object"
    THEN [res |-> StatusWith(resp.ingested, resp.failures), err |-> "nil"]
    ELSE [res |-> ZeroStatus, err |-> "nil"]

\* Do reads what it needs of the final response and returns, and with it the
\* entry point; the deferred close runs also when Do panics
DoReturn ==
    /\ ProducerYields
    /\ pc = "final"
    /\ \E c \in IF err # "nil" THEN {NoContent} ELSE ContentsFor(callKind, resp.status) :
        /\ content' = c
        /\ IF DoResult(c).err = "panic"
           THEN /\ pc' = "panicked"
                /\ UNCHANGED <<doRet, vOut, ret>>
           ELSE /\ pc' = "returned"
                /\ doRet' = [resp |-> DoResult(c).resp, err |-> DoResult(c).err,
                             detail |-> DoResult(c).detail]
                /\ vOut' = DoResult(c).out
                /\ ret' = EntryResult(DoResult(c))
    /\ openBodies' = DeferredClose(openBodies)
    /\ UNCHANGED <<attempts, wire, bodyDone, resp, err, last>>
    /\ UNCHANGED <<callKind, token, id, events, ctxCancelled>>
    /\ UNCHANGED <<chanVars, prodVars, pipeVars, bckVars, detVars>>
    /\ UNCHANGED argVars
    /\ UNCHANGED sideVars
    /\ UNCHANGED <<hdr, prodStarts, req, pwCloses, streamRead>>

IngNext ==
    \/ IngestEventsEmpty
    \/ StartProducer
    \/ CallStart
    \/ IngestStart
    \/ NewRequest
    \/ IngestValidate
    \/ Cancel
    \/ SenderClose
    \/ ProdNewWriter
    \/ ProdEncodeNext
    \/ ProdRangeEnd
    \/ ProdReceive
    \/ ProdReceiveClosed
    \/ ProdWriteClosedPipe
    \/ ProdCloseWriter
    \/ ProdClosePipe
    \/ DoAttempt
    \/ DoRetry
    \/ TransportRead
    \/ TransportReadEOF
    \/ TransportReadError
    \/ TransportFail
    \/ TransportCancelled
    \/ ServerRespond
    \/ DoReturn

(***************************************************************************)
(* The ingest options: from the options argument to the query the server   *)
(* sees.  A query is a sequence of tokens: keys, "=", escaped values, "&". *)
(***************************************************************************)

\* the url tags of ingest.Options, in the order url.Values.Encode sorts them
OptionFields == <<"csv-delimiter", "timestamp-field", "timestamp-format">>

FieldNames == {OptionFields[i] : i \in 1..Len(OptionFields)}

\* the values the setters are called with
OptionValues == {"", "time", ";"}

\* SetTimestampField(v), SetTimestampFormat(v), SetCSVDelimiter(v)
Setters == [field : FieldNames, value : OptionValues]

MaxOptions == 2

\* var opts ingest.Options
NoOptions == [f \in FieldNames |-> ""]

\* option(&opts)
ApplyOption(o, set) == [o EXCEPT ![set.field] = set.value]

\* url.QueryEscape
QueryEscape(val) == IF val = ";" THEN "%3B" ELSE val

\* url.QueryUnescape
QueryUnescape(val) == IF val = "%3B" THEN ";" ELSE val

\* an encoding without omitempty
EncodeFieldKeepEmpty(o, f) == <<f, "=", QueryEscape(o[f])>>

\* one field of the struct as key=value; omitempty leaves out an empty one
EncodeField(o, f) == IF o[f] = "" THEN <<>> ELSE <<f, "=", QueryEscape(o[f])>>

\* query.Values(opts) and Encode(): the fields that are there, joined by &
RECURSIVE EncodeQuery(_, _)
EncodeQuery(o, i) ==
    IF i > Len(OptionFields) THEN <<>>
    ELSE LET rest == EncodeQuery(o, i + 1)
             this == EncodeField(o, OptionFields[i])
         IN  IF this = <<>> THEN rest
             ELSE IF rest = <<>> THEN this
             ELSE this \o <<"&">> \o rest

\* AddOptions(s, opts): s with the encoded options as its query, if any
AddOptions(p, o) ==
    IF EncodeQuery(o, 1) = <<>> THEN p ELSE p \o <<"?">> \o EncodeQuery(o, 1)

\* the raw query of a request URI: what follows the first "?"
RawQuery(p) == Drop(p, QueryStart(p))

\* r.URL.Query(): for each key the unescaped value, "none" for a key that
\* is not in the query
ParseQuery(q) ==
    [f \in FieldNames |->
        IF \E i \in 1..(Len(q) - 2) : q[i] = f /\ q[i + 1] = "="
        THEN QueryUnescape(q[(CHOOSE i \in 1..(Len(q) - 2) : q[i] = f /\ q[i + 1] = "=") + 2])
        ELSE "none"]

NoQuery == [f \in FieldNames |-> "none"]

OptInit ==
    /\ oKind \in {"Ingest", "IngestEvents", "IngestChannel"}
    /\ \E ti \in TokensAndIDs \cup {<<"api", "test">>} : oToken = ti[1] /\ oID = ti[2]
    /\ oGiven \in SeqsUpTo(Setters, MaxOptions)
    /\ oIdx = 0
    /\ oOpts = NoOptions
    /\ oPc = "apply"
    /\ oPath = <<>>
    /\ oQuery = NoQuery
    /\ oErr = "nil"

OptIdle ==
    /\ oKind = "Ingest"
    /\ oToken = "personal"
    /\ oID = "test"
    /\ oGiven = <<>>
    /\ oIdx = 0
    /\ oOpts = NoOptions
    /\ oPc = "idle"
    /\ oPath = <<>>
    /\ oQuery = NoQuery
    /\ oErr = "nil"

\* for _, option := range options { option(&opts) }: one iteration
OptApply ==
    /\ oPc = "apply"
    /\ oIdx < Len(oGiven)
    /\ oOpts' = ApplyOption(oOpts, oGiven[oIdx + 1])
    /\ oIdx' = oIdx + 1
    /\ UNCHANGED <<oKind, oToken, oID, oGiven, oPc, oPath, oQuery, oErr>>
    /\ UNCHANGED <<detVars, ingVars, bufVars, queryVars, twoVars, lateVars>>

\* path, err := AddOptions(s.basePath+"/"+id+"/ingest", opts)
OptAddOptions ==
    /\ oPc = "apply"
    /\ oIdx = Len(oGiven)
    /\ oPath' = AddOptions(IngestPath(oID), oOpts)
    /\ oPc' = "newRequest"
    /\ UNCHANGED <<oKind, oToken, oID, oGiven, oIdx, oOpts, oQuery, oErr>>
    /\ UNCHANGED <<detVars, ingVars, bufVars, queryVars, twoVars, lateVars>>

\* req, err := s.client.NewRequest(ctx, http.MethodPost, path, r): the
\* error is returned, or the request goes out with the URL of the path
OptNewRequest ==
    /\ oPc = "newRequest"
    /\ IF NewRequestErr(oToken, oPath) # "nil"
       THEN /\ oErr' = NewRequestErr(oToken, oPath)
            /\ oPc' = "returned"
       ELSE /\ oPc' = "sent"
            /\ UNCHANGED oErr
    /\ UNCHANGED <<oKind, oToken, oID, oGiven, oIdx, oOpts, oPath, oQuery>>
    /\ UNCHANGED <<detVars, ingVars, bufVars, queryVars, twoVars, lateVars>>

\* the server's handler reads r.URL.Query()
OptServe ==
    /\ oPc = "sent"
    /\ oQuery' = ParseQuery(RawQuery(oPath))
    /\ oPc' = "served"
    /\ UNCHANGED <<oKind, oToken, oID, oGiven, oIdx, oOpts, oPath, oErr>>
    /\ UNCHANGED <<detVars, ingVars, bufVars, queryVars, twoVars, lateVars>>

OptNext == OptApply \/ OptAddOptions \/ OptNewRequest \/ OptServe

(***************************************************************************)
(* The batching buffer of the logging adapters: the logger hands each log  *)
(* event to the adapter, whose loop fills a batch and flushes it to the    *)
(* ingestion client when it is full or when the flush timer fires.         *)
(***************************************************************************)

\* the batch size (1024), scaled down
BatchSize == 3

\* how many events the logger logs
MaxLogged == 7

\* the capacity of the adapter's event channel
ChanCap == 1

\* a buffer that flushes one event late
IsFullLate(b) == Len(b) > BatchSize

\* the batch has reached the batch size
IsFull(b) == Len(b) >= BatchSize

\* a flush that keeps the events it has sent
AfterFlushKeeps(b) == b

\* the batch after a flush: empty
AfterFlush(b) == <<>>

BufInit ==
    /\ bLogged = 0
    /\ bChan = <<>>
    /\ bBuf = <<>>
    /\ bFlushes = <<>>

BufIdle == BufInit

\* the logger logs an event: the adapter puts it on its channel
BufLog ==
    /\ bLogged < MaxLogged
    /\ Len(bChan) < ChanCap
    /\ bLogged' = bLogged + 1
    /\ bChan' = Append(bChan, bLogged + 1)
    /\ UNCHANGED <<bBuf, bFlushes>>
    /\ UNCHANGED <<detVars, ingVars, optVars, queryVars, twoVars, lateVars>>

\* the adapter's loop takes an event off the channel and adds it to the
\* batch; a batch that is full is flushed at once
BufReceive ==
    /\ bChan # <<>>
    /\ bChan' = Tail(bChan)
    /\ IF IsFull(Append(bBuf, Head(bChan)))
       THEN /\ bFlushes' = Append(bFlushes, [events |-> Append(bBuf, Head(bChan)), by |-> "size"])
            /\ bBuf' = AfterFlush(Append(bBuf, Head(bChan)))
       ELSE /\ bBuf' = Append(bBuf, Head(bChan))
            /\ UNCHANGED bFlushes
    /\ UNCHANGED bLogged
    /\ UNCHANGED <<detVars, ingVars, optVars, queryVars, twoVars, lateVars>>

\* the flush timer fires: a batch that is not empty is flushed
BufTick ==
    /\ IF bBuf # <<>>
       THEN /\ bFlushes' = Append(bFlushes, [events |-> bBuf, by |-> "timer"])
            /\ bBuf' = AfterFlush(bBuf)
       ELSE UNCHANGED <<bBuf, bFlushes>>
    /\ UNCHANGED <<bLogged, bChan>>
    /\ UNCHANGED <<detVars, ingVars, optVars, queryVars, twoVars, lateVars>>

BufNext == BufLog \/ BufReceive \/ BufTick

(***************************************************************************)
(* QueryLegacy: the check of the save kind, the path with the query        *)
(* options, the request and its response.                                  *)
(***************************************************************************)

\* querylegacy.Analytics, querylegacy.Stream, querylegacy.APL
Analytics == "Analytics"

Stream == "Stream"

APL == "APL"

SaveKinds == {Analytics, Stream, APL}

\* Kind.String()
KindString(k) ==
    CASE k = Analytics -> "analytics"
      [] k = Stream -> "stream"
      [] k = APL -> "apl"

\* the dataset ids QueryLegacy is called with
QueryIDs == {"test", "", "_apl"}

\* fmt.Errorf("invalid query kind %q: must be %q or %q", ...)
InvalidKindError(k) ==
    <<"invalid query kind", KindString(k), "must be", KindString(Analytics), "or", KindString(Stream)>>

\* a QueryLegacy that checks no save kind
SaveKindErrUnchecked(k) == "nil"

\* if opts.SaveKind == querylegacy.APL: the error, "nil" for the other kinds
SaveKindErr(k) == IF k = APL THEN InvalidKindError(k) ELSE "nil"

\* AddOptions(s.basePath+"/"+id+"/query", opts) with the save kind set
QueryPath(i, k) ==
    DatasetsBasePath \o (IF i = "" THEN <<>> ELSE <<i>>) \o <<"/", "query">>
        \o <<"?", "saveAsKind", "=", KindString(k)>>

\* the error Do returns for a response with the status
QueryDoErr(status) ==
    IF status < 400 THEN "nil"
    ELSE IF TypedError(status) # "none" THEN TypedError(status)
    ELSE IF status \in LimitStatuses THEN "LimitError"
    ELSE "Error"

QueryInit ==
    /\ qKind \in SaveKinds
    /\ qToken \in {"personal", "api"}
    /\ qID \in QueryIDs
    /\ qPc = "start"
    /\ qPath = <<>>
    /\ qBuilt = 0
    /\ qSent = 0
    /\ qRes = "nil"
    /\ qErr = "nil"

QueryIdle ==
    /\ qKind = Analytics
    /\ qToken = "personal"
    /\ qID = "test"
    /\ qPc = "idle"
    /\ qPath = <<>>
    /\ qBuilt = 0
    /\ qSent = 0
    /\ qRes = "nil"
    /\ qErr = "nil"

\* the check of opts.SaveKind: return nil, spanError(span, err)
QueryCheckKind ==
    /\ qPc = "start"
    /\ IF SaveKindErr(qKind) # "nil"
       THEN /\ qErr' = SaveKindErr(qKind)
            /\ qPc' = "returned"
       ELSE /\ qPc' = "addOptions"
            /\ UNCHANGED qErr
    /\ UNCHANGED <<qKind, qToken, qID, qPath, qBuilt, qSent, qRes>>
    /\ UNCHANGED <<detVars, ingVars, optVars, bufVars, twoVars, lateVars>>

\* path, err := AddOptions(s.basePath+"/"+id+"/query", opts)
QueryAddOptions ==
    /\ qPc = "addOptions"
    /\ qPath' = QueryPath(qID, qKind)
    /\ qPc' = "newRequest"
    /\ UNCHANGED <<qKind, qToken, qID, qBuilt, qSent, qRes, qErr>>
    /\ UNCHANGED <<detVars, ingVars, optVars, bufVars, twoVars, lateVars>>

\* req, err := s.client.NewRequest(ctx, http.MethodPost, path, q)
QueryNewRequest ==
    /\ qPc = "newRequest"
    /\ IF NewRequestErr(qToken, qPath) # "nil"
       THEN /\ qErr' = NewRequestErr(qToken, qPath)
            /\ qPc' = "returned"
            /\ UNCHANGED qBuilt
       ELSE /\ qBuilt' = qBuilt + 1
            /\ qPc' = "do"
            /\ UNCHANGED qErr
    /\ UNCHANGED <<qKind, qToken, qID, qPath, qSent, qRes>>
    /\ UNCHANGED <<detVars, ingVars, optVars, bufVars, twoVars, lateVars>>

\* resp, err = s.client.Do(req, &res) and the return: the request is sent and
\* the server answers with a status; the result is returned if Do gave no
\* error
QueryDo ==
    /\ qPc = "do"
    /\ \E status \in Statuses :
        /\ qErr' = QueryDoErr(status)
        /\ qRes' = IF QueryDoErr(status) = "nil" THEN "result" ELSE "nil"
    /\ qSent' = qSent + 1
    /\ qPc' = "returned"
    /\ UNCHANGED <<qKind, qToken, qID, qPath, qBuilt>>
    /\ UNCHANGED <<detVars, ingVars, optVars, bufVars, twoVars, lateVars>>

QueryNext == QueryCheckKind \/ QueryAddOptions \/ QueryNewRequest \/ QueryDo

(***************************************************************************)
(* Two concurrent IngestEvents / IngestChannel calls on one client.  Each  *)
(* call has its own frame: its events, the pipe its io.Pipe() returned,    *)
(* the producer that captured them, its request and its ingest.Status.     *)
(* The encoding, the compression and the failures of one call are in the   *)
(* main specification; here a pipe carries the events themselves.          *)
(***************************************************************************)
Calls == {1, 2}

\* how many events a call is given
MaxCallEvents == 2

CallEvents == {"a", "b"}

\* pr, pw := io.Pipe()
NewPipe == [data |-> <<>>, closed |-> FALSE]

\* a producer that writes to the pipe created last, whichever call made it
ProducerPipeLatest(c) == Len(tPipes)

\* the pw the closure of call c captured
ProducerPipe(c) == tPw[c]

\* the ingest.Status of a response to a body of n events of which f failed
TwoStatus(n, f) == [ingested |-> n - f, failed |-> f]

TwoInit ==
    /\ tKind \in [Calls -> {"IngestEvents", "IngestChannel"}]
    /\ tEvents \in [Calls -> SeqsUpTo(CallEvents, MaxCallEvents)]
    /\ tPc = [c \in Calls |-> "start"]
    /\ tProdPc = [c \in Calls |-> "none"]
    /\ tIdx = [c \in Calls |-> 0]
    /\ tPw = [c \in Calls |-> 0]
    /\ tPipes = <<>>
    /\ tReqBody = [c \in Calls |-> 0]
    /\ tBody = [c \in Calls |-> <<>>]
    /\ tResp = [c \in Calls |-> TwoStatus(0, 0)]
    /\ tRet = [c \in Calls |-> TwoStatus(0, 0)]

TwoIdle ==
    /\ tKind = [c \in Calls |-> "IngestEvents"]
    /\ tEvents = [c \in Calls |-> <<>>]
    /\ tPc = [c \in Calls |-> "idle"]
    /\ tProdPc = [c \in Calls |-> "none"]
    /\ tIdx = [c \in Calls |-> 0]
    /\ tPw = [c \in Calls |-> 0]
    /\ tPipes = <<>>
    /\ tReqBody = [c \in Calls |-> 0]
    /\ tBody = [c \in Calls |-> <<>>]
    /\ tResp = [c \in Calls |-> TwoStatus(0, 0)]
    /\ tRet = [c \in Calls |-> TwoStatus(0, 0)]

\* IngestEvents with no events: return &ingest.Status{}, nil
TwoReturnEmpty(c) ==
    /\ tPc[c] = "start"
    /\ tKind[c] = "IngestEvents" /\ tEvents[c] = <<>>
    /\ tPc' = [tPc EXCEPT ![c] = "returned"]
    /\ UNCHANGED <<tKind, tEvents, tProdPc, tIdx, tPw, tPipes, tReqBody, tBody, tResp, tRet>>
    /\ UNCHANGED <<detVars, ingVars, optVars, bufVars, queryVars, lateVars>>

\* pr, pw := io.Pipe(); go func() { ... }()
TwoStart(c) ==
    /\ tPc[c] = "start"
    /\ tKind[c] = "IngestChannel" \/ tEvents[c] # <<>>
    /\ tPipes' = Append(tPipes, NewPipe)
    /\ tPw' = [tPw EXCEPT ![c] = Len(tPipes) + 1]
    /\ tProdPc' = [tProdPc EXCEPT ![c] = "loop"]
    /\ tPc' = [tPc EXCEPT ![c] = "newRequest"]
    /\ UNCHANGED <<tKind, tEvents, tIdx, tReqBody, tBody, tResp, tRet>>
    /\ UNCHANGED <<detVars, ingVars, optVars, bufVars, queryVars, lateVars>>

\* the producer of call c: enc.Encode(event) for the next event
TwoEncode(c) ==
    /\ tProdPc[c] = "loop"
    /\ tIdx[c] < Len(tEvents[c])
    /\ tPipes' = [tPipes EXCEPT ![ProducerPipe(c)].data = Append(@, tEvents[c][tIdx[c] + 1])]
    /\ tIdx' = [tIdx EXCEPT ![c] = @ + 1]
    /\ UNCHANGED <<tKind, tEvents, tPc, tProdPc, tPw, tReqBody, tBody, tResp, tRet>>
    /\ UNCHANGED <<detVars, ingVars, optVars, bufVars, queryVars, lateVars>>

\* the producer of call c after its last event: zsw.Close() and
\* pw.CloseWithError(encErr)
TwoClose(c) ==
    /\ tProdPc[c] = "loop"
    /\ tIdx[c] = Len(tEvents[c])
    /\ tPipes' = [tPipes EXCEPT ![ProducerPipe(c)].closed = TRUE]
    /\ tProdPc' = [tProdPc EXCEPT ![c] = "done"]
    /\ UNCHANGED <<tKind, tEvents, tPc, tIdx, tPw, tReqBody, tBody, tResp, tRet>>
    /\ UNCHANGED <<detVars, ingVars, optVars, bufVars, queryVars, lateVars>>

\* req, err := s.client.NewRequest(ctx, http.MethodPost, path, pr)
TwoNewRequest(c) ==
    /\ tPc[c] = "newRequest"
    /\ tReqBody' = [tReqBody EXCEPT ![c] = tPw[c]]
    /\ tPc' = [tPc EXCEPT ![c] = "do"]
    /\ UNCHANGED <<tKind, tEvents, tProdPc, tIdx, tPw, tPipes, tBody, tResp, tRet>>
    /\ UNCHANGED <<detVars, ingVars, optVars, bufVars, queryVars, lateVars>>

\* s.client.Do(req, &res), the exchange: the body of the request has been
\* read to its end and the server answers it with the status of what it read
TwoServe(c) ==
    /\ tPc[c] = "do"
    /\ tPipes[tReqBody[c]].closed
    /\ tBody' = [tBody EXCEPT ![c] = tPipes[tReqBody[c]].data]
    /\ \E f \in 0..Len(tPipes[tReqBody[c]].data) :
        tResp' = [tResp EXCEPT ![c] = TwoStatus(Len(tPipes[tReqBody[c]].data), f)]
    /\ tPc' = [tPc EXCEPT ![c] = "responded"]
    /\ UNCHANGED <<tKind, tEvents, tProdPc, tIdx, tPw, tPipes, tReqBody, tRet>>
    /\ UNCHANGED <<detVars, ingVars, optVars, bufVars, queryVars, lateVars>>

\* Do decodes the response into the call's res; return &res, nil
TwoReturn(c) ==
    /\ tPc[c] = "responded"
    /\ tRet' = [tRet EXCEPT ![c] = tResp[c]]
    /\ tPc' = [tPc EXCEPT ![c] = "returned"]
    /\ UNCHANGED <<tKind, tEvents, tProdPc, tIdx, tPw, tPipes, tReqBody, tBody, tResp>>
    /\ UNCHANGED <<detVars, ingVars, optVars, bufVars, queryVars, lateVars>>

TwoNext ==
    \E c \in Calls :
        \/ TwoReturnEmpty(c)
        \/ TwoStart(c)
        \/ TwoEncode(c)
        \/ TwoClose(c)
        \/ TwoNewRequest(c)
        \/ TwoServe(c)
        \/ TwoReturn(c)

(***************************************************************************)
(* Tracing: the span of an ingest call, spanError on its error returns and *)
(* setIngestResultOnSpan on its success.  What the body of the call comes  *)
(* to is an input here; how it comes to it is the main specification.      *)
(***************************************************************************)

\* the places where the entry points return
ReturnSites ==
    [Ingest |-> {"AddOptions", "NewRequest", "typ", "enc", "Do", "ok"},
     IngestEvents |-> {"empty", "AddOptions", "NewRequest", "Do", "ok"},
     IngestChannel |-> {"AddOptions", "NewRequest", "Do", "ok"}]

ErrAddOptions == "options cannot be encoded"

ErrParse == "parse: invalid URI for request"

\* the errors a return site hands to spanError
SiteErrors(site) ==
    CASE site = "AddOptions" -> {ErrAddOptions}
      [] site = "NewRequest" -> {ErrUnprivilegedToken, ErrParse}
      [] site = "typ" -> {ErrUnknownContentType}
      [] site = "enc" -> {ErrUnknownContentEncoding}
      [] site = "Do" -> {ErrUnauthenticated, ErrUnauthorized, ErrNotFound, ErrExists,
                         "LimitError", "Error", ErrTransport, ErrContextCanceled,
                         ErrStatusCode, ErrUndecodable, ErrClosedPipe, ErrUnsupportedType}
      [] OTHER -> {"nil"}

\* the statuses Do decodes
SiteStatuses(site) ==
    CASE site = "ok" -> {Status(0), Status(2), StatusWith(1, <<1>>)}
      [] site = "empty" -> {ZeroStatus}
      [] OTHER -> {NilStatus}

\* the outcomes of the body of an entry point
Outcomes(kind) ==
    IF kind = "spanError"
    THEN {[site |-> "spanError", err |-> e, res |-> NilStatus] :
            e \in {"nil", ErrNotFound, ErrTransport, ErrUnknownContentType}}
    ELSE UNION {[site : {st}, err : SiteErrors(st), res : SiteStatuses(st)] :
                    st \in ReturnSites[kind]}

\* s.client.trace: the span as started
NewSpan == [status |-> <<"Unset">>, errors |-> <<>>, attributes |-> "none", ended |-> FALSE]

\* a spanError that returns the error only when it recorded it
SpanErrorOnlyRecorded(span, recording, e) ==
    [err |-> IF recording THEN e ELSE "nil",
     span |-> IF e # "nil" /\ recording
              THEN [span EXCEPT !.status = <<"Error", e>>, !.errors = Append(@, e)]
              ELSE span]

\* spanError(span, err): nil for nil; a recording span gets the status and
\* the error; err is returned
SpanError(span, recording, e) ==
    [err |-> e,
     span |-> IF e # "nil" /\ recording
              THEN [span EXCEPT !.status = <<"Error", e>>, !.errors = Append(@, e)]
              ELSE span]

\* setIngestResultOnSpan(span, res); a span that is not recording drops
\* the attributes
SetIngestResultOnSpan(span, recording, res) ==
    IF recording THEN [span EXCEPT !.attributes = [ingested |-> res.ingested, failed |-> res.failed]]
    ELSE span

TraceInit ==
    /\ sKind \in {"Ingest", "IngestEvents", "IngestChannel", "spanError"}
    /\ sRecording \in BOOLEAN
    /\ sOutcome \in Outcomes(sKind)
    /\ sPc = "body"
    /\ sRet = NoRet
    /\ sSpan = NewSpan

TraceIdle ==
    /\ sKind = "Ingest"
    /\ sRecording = FALSE
    /\ sOutcome = [site |-> "ok", err |-> "nil", res |-> ZeroStatus]
    /\ sPc = "idle"
    /\ sRet = NoRet
    /\ sSpan = NewSpan

\* spanError called by itself
TraceSpanError ==
    /\ sPc = "body"
    /\ sKind = "spanError"
    /\ sRet' = [res |-> NilStatus, err |-> SpanError(sSpan, sRecording, sOutcome.err).err]
    /\ sSpan' = SpanError(sSpan, sRecording, sOutcome.err).span
    /\ sPc' = "returned"
    /\ UNCHANGED <<sKind, sRecording, sOutcome>>
    /\ UNCHANGED traceOthers

\* return nil, spanError(span, err), and the deferred span.End()
TraceReturnError ==
    /\ sPc = "body"
    /\ sKind # "spanError"
    /\ sOutcome.err # "nil"
    /\ sRet' = [res |-> NilStatus, err |-> SpanError(sSpan, sRecording, sOutcome.err).err]
    /\ sSpan' = [SpanError(sSpan, sRecording, sOutcome.err).span EXCEPT !.ended = TRUE]
    /\ sPc' = "returned"
    /\ UNCHANGED <<sKind, sRecording, sOutcome>>
    /\ UNCHANGED traceOthers

\* IngestEvents with no events: return &ingest.Status{}, nil, and the
\* deferred span.End()
TraceReturnEmpty ==
    /\ sPc = "body"
    /\ sOutcome.site = "empty"
    /\ sRet' = [res |-> sOutcome.res, err |-> "nil"]
    /\ sSpan' = [sSpan EXCEPT !.ended = TRUE]
    /\ sPc' = "returned"
    /\ UNCHANGED <<sKind, sRecording, sOutcome>>
    /\ UNCHANGED traceOthers

\* setIngestResultOnSpan(span, res); return &res, nil, and the deferred
\* span.End()
TraceReturnStatus ==
    /\ sPc = "body"
    /\ sOutcome.site = "ok"
    /\ sRet' = [res |-> sOutcome.res, err |-> "nil"]
    /\ sSpan' = [SetIngestResultOnSpan(sSpan, sRecording, sOutcome.res) EXCEPT !.ended = TRUE]
    /\ sPc' = "returned"
    /\ UNCHANGED <<sKind, sRecording, sOutcome>>
    /\ UNCHANGED traceOthers

TraceNext == TraceSpanError \/ TraceReturnError \/ TraceReturnEmpty \/ TraceReturnStatus

(***************************************************************************)
(* NewClient: the options in their order, the environment unless disabled, *)
(* the validation of the configuration.  config.IncorporateEnvironment and *)
(* config.Validate are of package internal/config; they are modelled after *)
(* what TestNewClient expects of them.                                     *)
(***************************************************************************)

MaxClientOptions == 2

ErrOption == "option failed"

ErrEnvironment == "environment cannot be incorporated"

ErrMissingAccessToken == "missing access token"

ErrMissingOrganizationID == "missing organization id"

CloudURL == "https://cloud.axiom.co"

\* the options of a call: setters, and an option that returns an error
ClientOptions == {"SetAccessToken", "SetOrgID", "SetURL", "SetNoEnv", "failing"}

\* config.Default() and noEnv as constructed
DefaultConfig == [url |-> CloudURL, accessToken |-> "", organizationID |-> "", noEnv |-> FALSE]

\* option(c) of a setter
ApplyClientOption(cfg, o) ==
    CASE o = "SetAccessToken" -> [cfg EXCEPT !.accessToken = "xapt"]
      [] o = "SetOrgID" -> [cfg EXCEPT !.organizationID = "org"]
      [] o = "SetURL" -> [cfg EXCEPT !.url = "http://axiom.local"]
      [] o = "SetNoEnv" -> [cfg EXCEPT !.noEnv = TRUE]
      [] OTHER -> cfg

\* config.IncorporateEnvironment: the environment fills what no option set
IncorporateEnvironment(cfg, env) ==
    [cfg EXCEPT !.accessToken = IF @ = "" THEN env.token ELSE @,
                !.organizationID = IF @ = "" THEN env.orgID ELSE @,
                !.url = IF @ = CloudURL /\ env.url # "" THEN env.url ELSE @]

\* config.Validate: Axiom Cloud needs an organization id, every deployment
\* an access token
Validate(cfg) ==
    IF cfg.url = CloudURL /\ cfg.organizationID = "" THEN ErrMissingOrganizationID
    ELSE IF cfg.accessToken = "" THEN ErrMissingAccessToken
    ELSE "nil"

\* return client, client.config.Validate(): the client whatever Validate says
ReturnClient(e) == "client"

NoClientRet == [client |-> "nil", err |-> "pending"]

NewClientInit ==
    /\ nOptions \in SeqsUpTo(ClientOptions, MaxClientOptions)
    /\ nEnv \in [token : {"", "xapt"}, orgID : {"", "org"}, url : {"", "http://axiom.local"},
                 err : {"nil", ErrEnvironment}]
    /\ nPc = "options"
    /\ nIdx = 0
    /\ nConfig = DefaultConfig
    /\ nRet = NoClientRet

NewClientIdle ==
    /\ nOptions = <<>>
    /\ nEnv = [token |-> "", orgID |-> "", url |-> "", err |-> "nil"]
    /\ nPc = "idle"
    /\ nIdx = 0
    /\ nConfig = DefaultConfig
    /\ nRet = NoClientRet

\* client.Options: the next option is applied
NewClientOption ==
    /\ nPc = "options"
    /\ nIdx < Len(nOptions)
    /\ nOptions[nIdx + 1] # "failing"
    /\ nConfig' = ApplyClientOption(nConfig, nOptions[nIdx + 1])
    /\ nIdx' = nIdx + 1
    /\ UNCHANGED <<nOptions, nEnv, nPc, nRet>>
    /\ UNCHANGED newClientOthers

\* client.Options: the next option fails; return nil, err
NewClientOptionFails ==
    /\ nPc = "options"
    /\ nIdx < Len(nOptions)
    /\ nOptions[nIdx + 1] = "failing"
    /\ nRet' = [client |-> "nil", err |-> ErrOption]
    /\ nPc' = "returned"
    /\ UNCHANGED <<nOptions, nEnv, nIdx, nConfig>>
    /\ UNCHANGED newClientOthers

\* if !client.noEnv: IncorporateEnvironment, return nil, err when it fails
NewClientEnvironment ==
    /\ nPc = "options"
    /\ nIdx = Len(nOptions)
    /\ IF nConfig.noEnv
       THEN nPc' = "validate" /\ UNCHANGED <<nConfig, nRet>>
       ELSE IF nEnv.err # "nil"
            THEN /\ nRet' = [client |-> "nil", err |-> nEnv.err]
                 /\ nPc' = "returned"
                 /\ UNCHANGED nConfig
            ELSE /\ nConfig' = IncorporateEnvironment(nConfig, nEnv)
                 /\ nPc' = "validate"
                 /\ UNCHANGED nRet
    /\ UNCHANGED <<nOptions, nEnv, nIdx>>
    /\ UNCHANGED newClientOthers

\* return client, client.config.Validate()
NewClientValidate ==
    /\ nPc = "validate"
    /\ nRet' = [client |-> ReturnClient(Validate(nConfig)), err |-> Validate(nConfig)]
    /\ nPc' = "returned"
    /\ UNCHANGED <<nOptions, nEnv, nIdx, nConfig>>
    /\ UNCHANGED newClientOthers

NewClientNext ==
    \/ NewClientOption
    \/ NewClientOptionFails
    \/ NewClientEnvironment
    \/ NewClientValidate

(***************************************************************************)
(* ValidateCredentials: with a personal token one call of Users.Current,   *)
(* which is one Call: a request built and handed to Do; with any other     *)
(* token nothing.                                                          *)
(***************************************************************************)

\* the tokens of a client: personal, API, neither, none
CredTokens == {"personal", "api", "invalid", ""}

\* what a current-user call comes to: the error of Do, and the user decoded
CurrentOutcomes ==
    [err : {ErrUnauthenticated, ErrUnauthorized, ErrNotFound, "Error", "LimitError",
            ErrTransport, ErrContextCanceled, ErrStatusCode, ErrUndecodable},
     user : {"none"}]
    \cup [err : {"nil"}, user : {"u1", "u2"}]

CredInit ==
    /\ vToken \in CredTokens
    /\ vOutcome \in CurrentOutcomes
    /\ vPc = "start"
    /\ vCalls = 0
    /\ vRequests = 0
    /\ vSent = 0
    /\ vRet = "pending"

CredIdle ==
    /\ vToken = ""
    /\ vOutcome = [err |-> "nil", user |-> "u1"]
    /\ vPc = "idle"
    /\ vCalls = 0
    /\ vRequests = 0
    /\ vSent = 0
    /\ vRet = "pending"

\* if config.IsPersonalToken(...) { _, err := c.Users.Current(ctx) ...
CredCallCurrent ==
    /\ vPc = "start"
    /\ IsPersonalToken(vToken)
    /\ vCalls' = vCalls + 1
    /\ vPc' = "NewRequest"
    /\ UNCHANGED <<vToken, vOutcome, vRequests, vSent, vRet>>
    /\ UNCHANGED credOthers

\* ... else: return nil
CredAssumeValid ==
    /\ vPc = "start"
    /\ ~IsPersonalToken(vToken)
    /\ vRet' = "nil"
    /\ vPc' = "returned"
    /\ UNCHANGED <<vToken, vOutcome, vCalls, vRequests, vSent>>
    /\ UNCHANGED credOthers

\* Call: req, err := c.NewRequest(...); a personal token may use every path
CredNewRequest ==
    /\ vPc = "NewRequest"
    /\ vRequests' = vRequests + 1
    /\ vPc' = "Do"
    /\ UNCHANGED <<vToken, vOutcome, vCalls, vSent, vRet>>
    /\ UNCHANGED credOthers

\* Call: c.Do(req, v); Users.Current returns its error and
\* ValidateCredentials returns that
CredDo ==
    /\ vPc = "Do"
    /\ vSent' = vSent + 1
    /\ vRet' = vOutcome.err
    /\ vPc' = "returned"
    /\ UNCHANGED <<vToken, vOutcome, vCalls, vRequests>>
    /\ UNCHANGED credOthers

CredNext == CredCallCurrent \/ CredAssumeValid \/ CredNewRequest \/ CredDo

(***************************************************************************)
(* Plan: its String of the stringer's line comments, planFromString,       *)
(* MarshalJSON and UnmarshalJSON.  Strings are sequences of characters, so *)
(* that quoting and unquoting are conversions.                             *)
(***************************************************************************)

emptyPlan == 0

Hobby == 1

Basic == 2

Enterprise == 3

Comped == 4

\* the largest value of the uint8 modelled; those above Comped have no name
MaxPlan == 6

Plans == emptyPlan..Comped

ErrUnknownPlan == "unknown plan"

ErrJSONSyntax == "json: invalid character"

ErrJSONType == "json: cannot unmarshal into Go value of type string"

\* Plan.String of stringer -linecomment: the line comment of the constant,
\* Plan(n) for a value without a constant
PlanString(p) ==
    CASE p = emptyPlan -> <<>>
      [] p = Hobby -> <<"h", "o", "b", "b", "y">>
      [] p = Basic -> <<"b", "a", "s", "i", "c">>
      [] p = Enterprise -> <<"e", "n", "t", "e", "r", "p", "r", "i", "s", "e">>
      [] p = Comped -> <<"c", "o", "m", "p", "e", "d">>
      [] OTHER -> <<"P", "l", "a", "n", "(", IF p = 5 THEN "5" ELSE "6", ")">>

\* a planFromString without its default case
planFromStringLenient(str) ==
    IF \E q \in Plans : str = PlanString(q)
    THEN [plan |-> CHOOSE q \in Plans : str = PlanString(q), err |-> "nil"]
    ELSE [plan |-> emptyPlan, err |-> "nil"]

\* planFromString: the plan whose String the text is, or the zero plan and
\* an error
planFromString(str) ==
    IF \E q \in Plans : str = PlanString(q)
    THEN [plan |-> CHOOSE q \in Plans : str = PlanString(q), err |-> "nil"]
    ELSE [plan |-> emptyPlan, err |-> ErrUnknownPlan]

RECURSIVE EscapeJSON(_)
\* the characters of a string as json.Marshal writes them between the quotes
EscapeJSON(str) ==
    IF str = <<>> THEN <<>>
    ELSE (IF Head(str) \in {"\"", "\\"} THEN <<"\\", Head(str)>> ELSE <<Head(str)>>)
         \o EscapeJSON(Tail(str))

\* json.Marshal of a string
MarshalString(str) == <<"\"">> \o EscapeJSON(str) \o <<"\"">>

\* Plan.MarshalJSON: json.Marshal(p.String())
MarshalJSON(p) == MarshalString(PlanString(p))

\* what no string is
InvalidText == <<"invalid">>

RECURSIVE UnescapeJSON(_)
\* the characters between the quotes read back; InvalidText for a quote that
\* is not escaped and for a backslash with nothing valid after it
UnescapeJSON(b) ==
    IF b = <<>> THEN <<>>
    ELSE IF Head(b) = "\""  THEN InvalidText
    ELSE IF Head(b) = "\\"
         THEN IF Len(b) >= 2 /\ b[2] \in {"\"", "\\"}
              THEN IF UnescapeJSON(Tail(Tail(b))) = InvalidText THEN InvalidText
                   ELSE <<b[2]>> \o UnescapeJSON(Tail(Tail(b)))
              ELSE InvalidText
    ELSE IF UnescapeJSON(Tail(b)) = InvalidText THEN InvalidText
         ELSE <<Head(b)>> \o UnescapeJSON(Tail(b))

\* the JSON values that are not strings
OtherJSON == {<<"n", "u", "l", "l">>, <<"t", "r", "u", "e">>, <<"1">>, <<"{", "}">>}

\* json.Unmarshal(b, &s) for var s string: null leaves s empty, another
\* value that is not a string is a type error, a text that is no JSON value
\* a syntax error
UnmarshalString(b) ==
    IF b = <<"n", "u", "l", "l">> THEN [s |-> <<>>, err |-> "nil"]
    ELSE IF b \in OtherJSON THEN [s |-> <<>>, err |-> ErrJSONType]
    ELSE IF Len(b) >= 2 /\ b[1] = "\"" /\ b[Len(b)] = "\""
                       /\ UnescapeJSON(SubSeq(b, 2, Len(b) - 1)) # InvalidText
         THEN [s |-> UnescapeJSON(SubSeq(b, 2, Len(b) - 1)), err |-> "nil"]
    ELSE [s |-> <<>>, err |-> ErrJSONSyntax]

\* Plan.UnmarshalJSON on a zero plan: the error of json.Unmarshal, or
\* *p, err = planFromString(s)
UnmarshalJSON(b) ==
    IF UnmarshalString(b).err # "nil"
    THEN [plan |-> emptyPlan, err |-> UnmarshalString(b).err]
    ELSE planFromString(UnmarshalString(b).s)

\* the strings of the plans
PlanNames == {PlanString(q) : q \in Plans}

\* strings next to them: another case, a letter less, a blank more, the
\* names of the constants, quoted and escaped characters
OtherTexts ==
    {<<"B", "a", "s", "i", "c">>,
     <<"b", "a", "s", "i">>,
     <<"b", "a", "s", "i", "c", " ">>,
     <<"C", "o", "m", "p", "e", "d">>,
     <<"c", "o", "m", "p", "e">>,
     <<"c", "o", "m", "p", "e", "d", " ">>,
     <<"E", "n", "t", "e", "r", "p", "r", "i", "s", "e">>,
     <<"e", "n", "t", "e", "r", "p", "r", "i", "s">>,
     <<"e", "n", "t", "e", "r", "p", "r", "i", "s", "e", " ">>,
     <<"H", "o", "b", "b", "y">>,
     <<"h", "o", "b", "b">>,
     <<"h", "o", "b", "b", "y", " ">>,
     <<" ">>,
     <<"f", "r", "e", "e">>,
     <<"P", "l", "a", "n", "(", "5", ")">>,
     <<"n", "u", "l", "l">>,
     <<"\"", "h", "o", "b", "b", "y", "\"">>,
     <<"h", "o", "\"", "b", "b", "y">>,
     <<"a", "\\", "b">>,
     <<"e", "m", "p", "t", "y", "P", "l", "a", "n">>}

\* texts that are not the JSON of a string
RawJSON == OtherJSON \cup {<<>>, <<"\"", "h", "o", "b", "b", "y">>, <<"h", "o", "b", "b", "y">>,
                           <<"\"", "a", "\\", "\"">>}

NoPlanRet == [plan |-> emptyPlan, err |-> "pending"]

PlanInit ==
    /\ pKind \in {"String", "MarshalJSON", "planFromString", "UnmarshalJSON", "raw"}
    /\ pPlan \in IF pKind \in {"String", "MarshalJSON"} THEN 0..MaxPlan ELSE {emptyPlan}
    /\ pText \in IF pKind \in {"planFromString", "UnmarshalJSON"} THEN PlanNames \cup OtherTexts
                 ELSE IF pKind = "raw" THEN RawJSON ELSE {<<>>}
    /\ pPc = "start"
    /\ pMid = <<>>
    /\ pRet = NoPlanRet

PlanIdle ==
    /\ pKind = "String"
    /\ pPlan = emptyPlan
    /\ pText = <<>>
    /\ pPc = "idle"
    /\ pMid = <<>>
    /\ pRet = NoPlanRet

\* p.String()
PlanToString ==
    /\ pPc = "start"
    /\ pKind = "String"
    /\ pMid' = PlanString(pPlan)
    /\ pPc' = "text"
    /\ UNCHANGED <<pKind, pPlan, pText, pRet>>
    /\ UNCHANGED planOthers

\* p.MarshalJSON()
PlanToJSON ==
    /\ pPc = "start"
    /\ pKind = "MarshalJSON"
    /\ pMid' = MarshalJSON(pPlan)
    /\ pPc' = "json"
    /\ UNCHANGED <<pKind, pPlan, pText, pRet>>
    /\ UNCHANGED planOthers

\* a text is given as it is, or as json.Marshal writes it
PlanGiven ==
    /\ pPc = "start"
    /\ pKind \in {"planFromString", "UnmarshalJSON", "raw"}
    /\ pMid' = IF pKind = "UnmarshalJSON" THEN MarshalString(pText) ELSE pText
    /\ pPc' = IF pKind = "planFromString" THEN "text" ELSE "json"
    /\ UNCHANGED <<pKind, pPlan, pText, pRet>>
    /\ UNCHANGED planOthers

\* planFromString(s)
PlanFromString ==
    /\ pPc = "text"
    /\ pRet' = planFromString(pMid)
    /\ pPc' = "returned"
    /\ UNCHANGED <<pKind, pPlan, pText, pMid>>
    /\ UNCHANGED planOthers

\* p.UnmarshalJSON(b)
PlanFromJSON ==
    /\ pPc = "json"
    /\ pRet' = UnmarshalJSON(pMid)
    /\ pPc' = "returned"
    /\ UNCHANGED <<pKind, pPlan, pText, pMid>>
    /\ UNCHANGED planOthers

PlanNext == PlanToString \/ PlanToJSON \/ PlanGiven \/ PlanFromString \/ PlanFromJSON

\* no call of the side specifications runs
EarlyIdle == OptIdle /\ BufIdle /\ QueryIdle /\ TwoIdle

LateIdle == TraceIdle /\ NewClientIdle /\ CredIdle /\ PlanIdle

SideIdle == EarlyIdle /\ LateIdle

(***************************************************************************)
(* The specifications.                                                     *)
(***************************************************************************)

\* DetectContentType is called; no ingest call runs
InitDetect == DetInit /\ IngIdle /\ SideIdle

\* DetectContentType on every input of the alphabet up to MaxLen bytes
SpecDetect == InitDetect /\ [][DetNext]_vars

\* an ingest call is made with options, up to the request the server sees
InitOptions == OptInit /\ DetIdle /\ IngIdle /\ BufIdle /\ QueryIdle /\ TwoIdle /\ LateIdle

\* the ingest options of one call of Ingest, IngestEvents or IngestChannel
SpecOptions == InitOptions /\ [][OptNext]_vars

\* a logger with the adapter; no other call runs
InitBuffer == BufInit /\ DetIdle /\ IngIdle /\ OptIdle /\ QueryIdle /\ TwoIdle /\ LateIdle

\* a QueryLegacy call is made; no other call runs
InitQuery == QueryInit /\ DetIdle /\ IngIdle /\ OptIdle /\ BufIdle /\ TwoIdle /\ LateIdle

\* two slice or channel ingest calls are made on one client
InitTwo == TwoInit /\ DetIdle /\ IngIdle /\ OptIdle /\ BufIdle /\ QueryIdle /\ LateIdle

\* an ingest call with its span; no other call runs
InitTrace == TraceInit /\ DetIdle /\ IngIdle /\ EarlyIdle /\ NewClientIdle /\ CredIdle /\ PlanIdle

\* one call of NewClient; no other call runs
InitNewClient == NewClientInit /\ DetIdle /\ IngIdle /\ EarlyIdle /\ TraceIdle /\ CredIdle /\ PlanIdle

\* NewClient: the options, the environment, the validation
SpecNewClient == InitNewClient /\ [][NewClientNext]_vars

\* one call of ValidateCredentials; no other call runs
InitCredentials == CredInit /\ DetIdle /\ IngIdle /\ EarlyIdle /\ TraceIdle /\ NewClientIdle /\ PlanIdle

\* ValidateCredentials with the tokens a client can hold
SpecCredentials == InitCredentials /\ [][CredNext]_vars

\* one conversion of a plan or of a text; no call runs
InitPlan == PlanInit /\ DetIdle /\ IngIdle /\ EarlyIdle /\ TraceIdle /\ NewClientIdle /\ CredIdle

\* Plan to its string or its JSON text and back, and texts to plans
SpecPlan == InitPlan /\ [][PlanNext]_vars

\* the returns of an ingest call and what they do to its span
SpecTrace == InitTrace /\ [][TraceNext]_vars

\* two concurrent IngestEvents / IngestChannel calls
SpecTwo == InitTwo /\ [][TwoNext]_vars

\* a QueryLegacy call
SpecQuery == InitQuery /\ [][QueryNext]_vars

\* the batching buffer under MaxLogged log events
SpecBuffer == InitBuffer /\ [][BufNext]_vars

\* the same, with a loop that keeps taking events and a timer that keeps
\* firing
SpecBufferFair == SpecBuffer /\ WF_vars(BufReceive) /\ WF_vars(BufTick)

\* an ingest call or Call is made; DetectContentType does not run
Init == IngInit /\ DetIdle /\ SideIdle

\* one call of IngestEvents, IngestChannel, Ingest, Call or NewRequest, with
\* its producer, the caller's sender and the server
Spec == Init /\ [][IngNext]_vars

\* a step of the call, of its producer, of the sender or of an HTTP attempt:
\* any step but the cancellation of the caller's context
ProgNext == IngNext /\ ctxCancelled' = ctxCancelled

\* the calls that reach Do, with at most one event, Call with no value to
\* decode into and Ingest with the content type and encoding of the other
\* ingest calls
InitFair ==
    /\ Init
    /\ callKind # "NewRequest"
    /\ Len(events) <= 1
    /\ callKind = "Call" => v = "nil" /\ token = "personal"
    /\ callKind = "Ingest" => typ = NDJSON /\ enc = Zstd

\* such a call where goroutines that can run do run, timers fire and every
\* HTTP attempt comes to its end
SpecFair == InitFair /\ [][IngNext]_vars /\ WF_vars(ProgNext)

(***************************************************************************)
(* DetectContentType: what the claims are stated against.  The first       *)
(* non-whitespace rune of the whole input, decoded without any buffering.  *)
(***************************************************************************)
RECURSIVE SkipSpaces(_)
SkipSpaces(p) ==
    IF p = <<>> THEN <<>>
    ELSE IF IsSpace(DecodeRune(p)[1]) THEN SkipSpaces(Drop(p, DecodeRune(p)[2]))
    ELSE p

NoRune == 0 - 1

FirstNonSpace(p) == IF SkipSpaces(p) = <<>> THEN NoRune ELSE DecodeRune(SkipSpaces(p))[1]

Accepted(c) == c = 91 \/ c = 123 \/ IsLetter(c) \/ c = 34

\* C1: for every input DetectContentType accepts, reading the returned reader
\* to the end yields exactly the input's bytes, leading whitespace included.
C1_RoundTrip == detPc = "read" => out = input

C3_Errors ==
    (detPc # "scan" /\ ~Accepted(FirstNonSpace(input))) =>
        /\ detRet.reader = NilReader
        /\ detRet.typ = NoContentType
        /\ detRet.err = IF FirstNonSpace(input) = NoRune
                        THEN ErrNoBeginning ELSE ErrCannotDetermine

\* a whitespace-only input of several bytes has been rejected
C3_Witness ==
    /\ detPc = "returned"
    /\ Len(input) >= 2
    /\ FirstNonSpace(input) = NoRune
    /\ detRet.err = ErrNoBeginning

(***************************************************************************)
(* The ingest calls and Do: what the claims are stated against.            *)
(***************************************************************************)

\* the events the source has yielded: the slice, or what the channel delivered
Yielded == IF callKind = "IngestChannel" THEN Take(events, chIdx) ELSE events

\* C4: when every event serializes, the body the transport reads from the
\* encoder is one complete frame that holds exactly one JSON object per event
\* of the slice or channel, in the order the source yielded them.
C4_BodyIsEventsInOrder ==
    (HasPipe /\ bodyDone) =>
        /\ CompleteFrame(wire)
        /\ ParseNDJSON(Decompress(wire)) = events
        /\ Yielded = events

\* a body of several blocks with two different events has been read to its end
C4_Witness ==
    /\ HasPipe /\ bodyDone
    /\ Len(events) >= 2
    /\ events[1] # events[2]
    /\ Len(wire) >= 2

\* no event to ingest: an empty slice, or a channel closed with nothing sent
ZeroEventsSlice == callKind = "IngestEvents" /\ events = <<>>

ZeroEventsChannel == callKind = "IngestChannel" /\ events = <<>> /\ senderCloses

\* C5 as stated: with zero events both IngestEvents and IngestChannel start no
\* producer, issue no HTTP request and return an all-zero status and no error.
C5_ZeroEventsShortCircuit ==
    (ZeroEventsSlice \/ ZeroEventsChannel) =>
        /\ prodPc = "none"
        /\ attempts = 0
        /\ pc = "returned" => ret = [res |-> ZeroStatus, err |-> "nil"]

\* C5 amended: IngestEvents with an empty slice starts no producer, issues no
\* HTTP request and returns an all-zero status and no error.  IngestChannel
\* with a channel closed before any event does not short-circuit: it has
\* started its producer, which encodes nothing and writes no frame, and unless
\* building the request failed it has issued an HTTP request, whose body is
\* empty; what it returns is what that request yielded.
C5_ZeroEventsAmended ==
    /\ ZeroEventsSlice =>
        /\ prodPc = "none"
        /\ attempts = 0
        /\ pc = "returned" => ret = [res |-> ZeroStatus, err |-> "nil"]
    /\ (ZeroEventsChannel /\ pc = "returned") =>
        /\ prodPc # "none"
        /\ encoded = <<>> /\ ~zsw.started /\ wire = <<>>
        /\ IF NewRequestErr(token, path) # "nil"
           THEN attempts = 0 /\ ret = [res |-> NilStatus, err |-> ErrUnprivilegedToken]
           ELSE attempts >= 1 /\ ret.err = doRet.err

\* IngestChannel on a closed, empty channel has returned the server's answer
C5_Witness ==
    /\ ZeroEventsChannel
    /\ chClosed
    /\ pc = "returned"
    /\ attempts >= 1
    /\ ret = [res |-> ZeroStatus, err |-> "nil"]

\* an outcome that Do retries: a transport failure or a status >= 500
RetryableOutcome(o) == o.kind \in {"fail", "ctx"} \/ (o.kind = "resp" /\ o.status >= 500)

\* C6: Do runs the operation again exactly when the attempt failed in the
\* transport or answered a status >= 500 and the backoff budget is not
\* exhausted; after an attempt that answered a status below 500 no other
\* attempt is made.
C6_RetryExactlyOnFailure ==
    /\ (last.kind = "resp" /\ last.status < 500) =>
        pc \in {"final", "returned", "panicked"} /\ ~stopped
    /\ (pc = "http" /\ attempts >= 2) => RetryableOutcome(last)
    /\ pc = "backoff" =>
        RetryableOutcome(last) /\ now + timer <= MaxElapsedTime
    /\ (pc \in {"final", "returned"} /\ attempts >= 1 /\ RetryableOutcome(last)) =>
        now + RandomValueFromInterval(random, currentInterval \div Multiplier) > MaxElapsedTime

\* Do has returned after a retried attempt and then a 404: two requests
C6_Witness ==
    /\ pc = "returned"
    /\ attempts = 2
    /\ last = [kind |-> "resp", status |-> 404]
    /\ doRet.err = ErrNotFound

\* C7 as stated: when the budget is exhausted, the response and the error Do
\* returns both come from the final attempt (no response if it obtained none).
C7_BothFromFinalAttempt ==
    (pc = "returned" /\ stopped) =>
        /\ doRet.err = err
        /\ doRet.resp = IF last.kind = "resp" THEN resp ELSE NilResp

\* C7 amended: when the budget is exhausted, the error Do returns is the
\* final attempt's error, and the response it returns is the latest response
\* any attempt obtained: the final attempt's if it obtained one, otherwise
\* that of an earlier attempt (a status >= 500), or none if no attempt
\* obtained a response.
C7_LastErrorLatestResponse ==
    (pc = "returned" /\ stopped) =>
        /\ doRet.err = err /\ err # "nil"
        /\ doRet.err = IF last.kind = "resp" THEN ErrStatusCode
                       ELSE IF last.kind = "ctx" THEN ErrContextCanceled
                       ELSE doRet.err
        /\ last.kind = "resp" => doRet.resp.id = attempts /\ doRet.resp.status = last.status
        /\ doRet.resp.id <= attempts
        /\ doRet.resp.id # 0 => doRet.resp.status >= 500
        /\ \A b \in openBodies : b < doRet.resp.id

\* the budget ran out on a transport failure and Do returned the response of
\* an earlier attempt
C7_Witness ==
    /\ pc = "returned" /\ stopped
    /\ last.kind = "fail"
    /\ doRet.resp.id >= 1
    /\ doRet.resp.id < attempts

\* C8: every response body Do obtained, in whichever attempt, is drained and
\* closed when Do returns.
C8_AllBodiesClosed == pc = "returned" => openBodies = {}

\* C9: once an attempt of a channel-based ingest has observed the cancelled
\* context, Do neither waits for a backoff interval nor makes another attempt:
\* it is returning.
C9_NoRetryAfterCancel ==
    (callKind = "IngestChannel" /\ last.kind = "ctx") => pc \in {"final", "returned"}

\* the producer waits on an events channel that is neither closed nor sent to
\* any more
ProducerBlockedForever ==
    /\ callKind = "IngestChannel"
    /\ prodPc = "loop"
    /\ chIdx = Len(events)
    /\ ~chClosed
    /\ ~senderCloses

\* C10: after a channel-based ingest has returned because its context was
\* cancelled, its producer is not left waiting for ever: it has seen the
\* closed pipe reader and ended, also when the channel is never closed and
\* nothing more is sent.
C10_ProducerEndsAfterCancel ==
    (callKind = "IngestChannel" /\ pc = "returned" /\ ret.err = ErrContextCanceled) =>
        ~ProducerBlockedForever

(***************************************************************************)
(* The API token gate of NewRequest.                                       *)
(***************************************************************************)

\* the request of the call was handed to the transport
ReachedTransport == pc = "http" /\ attempts >= 1

\* C11: with an API token, NewRequest on the path / or /api/v1/datasets
\* fails with ErrUnprivilegedToken, builds no request, and the call makes no
\* HTTP attempt; on /api/v1/datasets/test/ingest it builds the request and
\* does not fail with that error
C11_UnprivilegedToken ==
    (callKind \in {"Call", "NewRequest"} /\ IsAPIToken(token)) =>
        /\ path \in {<<"/">>, <<"/", "api", "/", "v1", "/", "datasets">>} =>
            /\ ~req
            /\ attempts = 0
            /\ pc \in {"start", "newRequest", "returned"}
            /\ pc = "returned" => ret = [res |-> NilStatus, err |-> ErrUnprivilegedToken]
        /\ (path = IngestPath("test") /\ pc \notin {"start", "newRequest"}) =>
            /\ req
            /\ ret.err # ErrUnprivilegedToken

\* Call with an API token on the ingest path is at the transport
C11_Witness ==
    /\ callKind = "Call" /\ IsAPIToken(token)
    /\ path = IngestPath("test")
    /\ req /\ ReachedTransport

\* Call with an API token on /api/v1/datasets has returned
C11_WitnessRejected ==
    /\ callKind = "Call" /\ IsAPIToken(token)
    /\ path = <<"/", "api", "/", "v1", "/", "datasets">>
    /\ pc = "returned" /\ ret.err = ErrUnprivilegedToken

\* the path part of a request URI as written, before any "?"
WrittenPath(p) == Take(p, QueryStart(p) - 1)

\* the allow-list as stated: dataset ingest, dataset query, APL query and
\* ingest-token validation
StatedAllowList(p) ==
    \/ \E i \in DatasetIDs \ {""} : \E o \in {"ingest", "query"} :
           WrittenPath(p) = DatasetsBasePath \o <<i, "/", o>>
    \/ WrittenPath(p) = DatasetsBasePath \o <<"_apl">>
    \/ WrittenPath(p) = TokensBasePath \o <<"ingest", "/", "validate">>

\* C12: with an API token NewRequest builds a request exactly for the paths
\* of the stated allow-list, and fails with ErrUnprivilegedToken for every
\* other path
C12_AllowList ==
    (callKind = "NewRequest" /\ IsAPIToken(token) /\ pc = "returned") =>
        /\ StatedAllowList(path) <=> (req /\ ret.err = "nil")
        /\ ~StatedAllowList(path) <=> (~req /\ ret.err = ErrUnprivilegedToken)

(***************************************************************************)
(* Ingest: the validation of typ and enc.                                  *)
(***************************************************************************)

UnknownTyp == typ \notin {JSON, NDJSON, CSV}

UnknownEnc == enc \notin {Identity, Gzip, Zstd}

\* C13 as stated: Ingest with an unknown typ returns ErrUnknownContentType,
\* with an unknown enc ErrUnknownContentEncoding, and either way a nil
\* status, with no HTTP attempt and nothing read from the stream
C13_ValidationErrors ==
    (callKind = "Ingest" /\ pc = "returned") =>
        /\ UnknownTyp => ret.err = ErrUnknownContentType
        /\ UnknownEnc => ret.err = ErrUnknownContentEncoding
        /\ (UnknownTyp \/ UnknownEnc) =>
            (ret.res = NilStatus /\ attempts = 0 /\ ~streamRead)

\* C13 amended: Ingest with an unknown typ or enc never makes an HTTP attempt
\* nor reads the stream, and returns a nil status with the first error in
\* the order: NewRequest's error, ErrUnknownContentType,
\* ErrUnknownContentEncoding
C13_ValidationAmended ==
    (callKind = "Ingest" /\ (UnknownTyp \/ UnknownEnc)) =>
        /\ attempts = 0
        /\ ~streamRead
        /\ pc \in {"start", "newRequest", "validate", "returned"}
        /\ pc = "returned" =>
            /\ ret.res = NilStatus
            /\ ret.err = IF NewRequestErr(token, path) # "nil" THEN NewRequestErr(token, path)
                         ELSE IF UnknownTyp THEN ErrUnknownContentType
                         ELSE ErrUnknownContentEncoding

\* Ingest with a known typ and an unknown enc has returned
\* ErrUnknownContentEncoding after the request was built
C13_Witness ==
    /\ callKind = "Ingest" /\ pc = "returned"
    /\ ~UnknownTyp /\ UnknownEnc
    /\ req
    /\ ret = [res |-> NilStatus, err |-> ErrUnknownContentEncoding]

(***************************************************************************)
(* Do: what the final response maps to.                                    *)
(***************************************************************************)

\* Do has returned what it made of a final response
ReturnedResponse == pc = "returned" /\ req /\ err = "nil" /\ resp.id # 0

\* C14: a response with status 429 or httpStatusLimitExceeded is not
\* retried: the attempt that received it is the last one, so a first
\* response of that kind means exactly one attempt; Do returns the response
\* and a LimitError that carries the response's limit
C14_LimitError ==
    /\ (last.kind = "resp" /\ last.status \in {429, httpStatusLimitExceeded}) =>
        /\ pc \in {"final", "returned"}
        /\ resp.status = last.status /\ resp.id = attempts
        /\ ~stopped /\ err = "nil"
    /\ (ReturnedResponse /\ resp.status \in {429, httpStatusLimitExceeded}) =>
        /\ doRet.resp = resp
        /\ doRet.err = "LimitError"
        /\ doRet.detail.limit = content.limit
        /\ ret.err = "LimitError"

\* Call has returned a LimitError with the limit of the 430 response its
\* only attempt received
C14_Witness ==
    /\ callKind = "Call" /\ ReturnedResponse
    /\ resp.status = httpStatusLimitExceeded /\ attempts = 1
    /\ content.limit = "limitB"
    /\ doRet.err = "LimitError" /\ doRet.detail.limit = "limitB"

GenericStatus ==
    /\ resp.status >= 400
    /\ resp.status \notin {401, 403, 404, 409, 429, httpStatusLimitExceeded}

JSONTyped == HasPrefix(content.ct, mediaTypeJSON)

\* the text with its newlines taken out
StripNewlines(b) == SelectSeq(b, LAMBDA x : x # Newline)

\* the text with a space in the place of each newline
NewlinesAsSpaces(b) == [i \in 1..Len(b) |-> IF b[i] = Newline THEN " " ELSE b[i]]

\* C17 as stated: for a status >= 400 without a case in the switch, a
\* response that is not JSON gives an Error with the status and the status
\* text, and a JSON response gives the decoded Error with the status, whose
\* empty message is replaced by the body with the newlines removed
C17_GenericError ==
    (ReturnedResponse /\ GenericStatus) =>
        /\ doRet.err = "Error"
        /\ doRet.detail.status = resp.status
        /\ doRet.detail.message =
              IF ~JSONTyped THEN StatusText(resp.status)
              ELSE IF DecodedMessage(content.body) # <<>> THEN DecodedMessage(content.body)
              ELSE StripNewlines(content.body)

\* C17 amended: a response that is not JSON gives an Error with the status
\* and the status text; a JSON body that does not decode into an Error gives
\* a plain decoding error; a JSON null makes Do panic; a JSON object gives
\* the decoded Error with the status, whose empty message is replaced by the
\* body with a space for each newline
C17_GenericErrorAmended ==
    /\ (ReturnedResponse /\ GenericStatus /\ ~JSONTyped) =>
        /\ doRet.err = "Error"
        /\ doRet.detail.status = resp.status
        /\ doRet.detail.message = StatusText(resp.status)
    /\ (ReturnedResponse /\ GenericStatus /\ JSONTyped) =>
        /\ JSONValue(content.body) # "null"
        /\ IF JSONValue(content.body) \in {"object", "objectMsg"}
           THEN /\ doRet.err = "Error"
                /\ doRet.detail.status = resp.status
                /\ doRet.detail.message =
                      IF DecodedMessage(content.body) # <<>>
                      THEN DecodedMessage(content.body)
                      ELSE NewlinesAsSpaces(content.body)
           ELSE doRet.err = "error decoding error response"
    /\ pc = "panicked" =>
        (GenericStatus /\ JSONTyped /\ JSONValue(content.body) = "null")
    /\ (ReturnedResponse /\ GenericStatus) => doRet.resp = resp

\* Do has returned the Error of a 400 whose JSON body is an object without
\* a message, spread over two lines
C17_Witness ==
    /\ ReturnedResponse
    /\ resp.status = 400
    /\ JSONTyped /\ content.body = <<"{", Newline, "}", Newline>>
    /\ doRet.err = "Error"
    /\ doRet.detail.message = <<"{", " ", "}", " ">>

\* C18: for every final response with a status >= 400, whatever its
\* Content-Type and body, Do returns, and returns an error
C18_AlwaysAnError ==
    (pc \in {"returned", "panicked"} /\ req /\ err = "nil" /\ resp.id # 0
        /\ resp.status >= 400) =>
        /\ pc = "returned"
        /\ doRet.err # "nil"

Taken == IF callKind = "IngestChannel" THEN chIdx ELSE prodIdx

\* the producer met an event json.Marshal rejects: the last one it took
MarshalFailed == Taken >= 1 /\ ~Marshalable(events[Taken])

\* C21: the producer closes the pipe with the marshalling error if an event
\* failed to encode, also when closing the compressor failed as well; else
\* with the compressor's write or close error; else with none.  After the
\* failing event nothing more is taken or encoded, and a call whose producer
\* closed the pipe with an error does not return success
C21_PipeCloseError ==
    HasPipe =>
        /\ prodPc = "done" =>
            pipeWErr = IF MarshalFailed THEN ErrUnsupportedType
                       ELSE IF zsw.err # "nil" THEN zsw.err
                       ELSE "EOF"
        /\ \A i \in 1..Taken : ~Marshalable(events[i]) =>
            /\ i = Taken
            /\ prodPc \in {"close", "write", "closePipe", "done"}
            /\ encErr = ErrUnsupportedType
            /\ \A j \in 1..Len(encoded) : encoded[j] = events[j]
            /\ Len(encoded) < i
        /\ (pc = "returned" /\ pipeWErr \notin {"open", "EOF"}) => ret.err # "nil"
        /\ (pc = "returned" /\ MarshalFailed) => ret.err # "nil"

\* the producer is done after a marshalling error and a failed close of the
\* compressor: the pipe is closed with the marshalling error, and the call
\* has returned an error
C21_Witness ==
    /\ HasPipe
    /\ prodPc = "done"
    /\ MarshalFailed
    /\ zsw.err = ErrClosedPipe
    /\ pipeWErr = ErrUnsupportedType
    /\ pc = "returned" /\ ret.err # "nil"

(***************************************************************************)
(* The ingest calls: what they make of the server's status.                *)
(***************************************************************************)

IngestCall == callKind \in {"Ingest", "IngestEvents", "IngestChannel"}

\* C22: when the final response to an ingest call has a status < 400 and a
\* JSON status object that lists failures, the call returns that status and
\* no error: the failed count and the failures, in the server's order
C22_PartialFailureIsSuccess ==
    (IngestCall /\ ReturnedResponse /\ resp.status < 400 /\ JSONTyped
        /\ JSONValue(content.body) \in {"object", "objectMsg"}
        /\ resp.failures # <<>>) =>
        /\ ret.err = "nil"
        /\ ~ret.res.nil
        /\ ret.res.failed = Len(resp.failures) /\ ret.res.failed > 0
        /\ ret.res.failures = resp.failures
        /\ ret.res.ingested = resp.ingested

\* IngestEvents has returned, with no error, the status of a 200 that
\* rejects both events
C22_Witness ==
    /\ callKind = "IngestEvents" /\ ReturnedResponse
    /\ resp.status = 200
    /\ resp.failures = <<1, 2>>
    /\ ret.err = "nil"
    /\ ret.res.failed = 2 /\ ret.res.failures = <<1, 2>>

(***************************************************************************)
(* The header of the request.                                              *)
(***************************************************************************)

\* the request is with the transport, or was
RequestSent == req /\ attempts >= 1

\* C23: the request IngestEvents and IngestChannel send has Content-Type
\* application/x-ndjson and Content-Encoding zstd; the request Ingest sends
\* has the Content-Type of typ in place of application/octet-stream, and a
\* Content-Encoding header exactly when enc is not Identity: gzip for Gzip,
\* zstd for Zstd
C23_IngestHeaders ==
    /\ (HasPipe /\ req) =>
        /\ hdr.contentType = "application/x-ndjson"
        /\ hdr.contentEncoding = "zstd"
    /\ (callKind = "Ingest" /\ RequestSent) =>
        /\ hdr.contentType = CASE typ = JSON -> "application/json"
                                [] typ = NDJSON -> "application/x-ndjson"
                                [] typ = CSV -> "text/csv"
                                [] OTHER -> "never sent"
        /\ hdr.contentEncoding = "none" <=> enc = Identity
        /\ enc = Gzip => hdr.contentEncoding = "gzip"
        /\ enc = Zstd => hdr.contentEncoding = "zstd"

\* Ingest has sent a JSON body that is not encoded: Content-Type
\* application/json and no Content-Encoding
C23_Witness ==
    /\ callKind = "Ingest" /\ pc = "http"
    /\ typ = JSON /\ enc = Identity
    /\ hdr.contentType = "application/json"
    /\ hdr.contentEncoding = "none"

RECURSIVE LastSet(_, _)
LastSet(given, f) ==
    IF given = <<>> THEN ""
    ELSE IF given[Len(given)].field = f THEN given[Len(given)].value
    ELSE LastSet(Take(given, Len(given) - 1), f)

\* C25: for each of the three ingest entry points, the request the server
\* gets carries timestamp-field, timestamp-format or csv-delimiter exactly
\* when the option was given a value that is not empty, and then with that
\* value
C25_OptionsInQuery ==
    oPc = "served" =>
        \A f \in FieldNames :
            /\ oQuery[f] # "none" <=> LastSet(oGiven, f) # ""
            /\ oQuery[f] # "none" => oQuery[f] = LastSet(oGiven, f)

\* IngestChannel with an API token was given the delimiter ";" and an empty
\* timestamp field: the server sees csv-delimiter only
C25_Witness ==
    /\ oKind = "IngestChannel" /\ oToken = "api"
    /\ oPc = "served"
    /\ oGiven = <<[field |-> "csv-delimiter", value |-> ";"],
                  [field |-> "timestamp-field", value |-> ""]>>
    /\ oQuery = [NoQuery EXCEPT !["csv-delimiter"] = ";"]

(***************************************************************************)
(* The batching buffer.                                                    *)
(***************************************************************************)

\* the events of the batches flushed so far, in the order of delivery
RECURSIVE FlushedEvents(_)
FlushedEvents(fs) ==
    IF fs = <<>> THEN <<>> ELSE FlushedEvents(Take(fs, Len(fs) - 1)) \o fs[Len(fs)].events

\* C26: the batch never sits full: the event that fills it flushes it in
\* the same step, without the timer; a batch flushed for its size holds
\* exactly BatchSize events, no batch holds more, and an event logged later
\* is in a later batch
C26_SizeTriggeredFlush ==
    /\ Len(bBuf) < BatchSize
    /\ \A i \in 1..Len(bFlushes) :
        /\ bFlushes[i].by = "size" => Len(bFlushes[i].events) = BatchSize
        /\ Len(bFlushes[i].events) \in 1..BatchSize
        /\ \A j \in 1..Len(bFlushes[i].events) :
            /\ bFlushes[i].events[j] <= bLogged
            /\ j > 1 => bFlushes[i].events[j] = bFlushes[i].events[j - 1] + 1
        /\ i > 1 => bFlushes[i].events[1] > bFlushes[i - 1].events[Len(bFlushes[i - 1].events)]

\* a first batch was flushed for its size with the events 1..BatchSize, and
\* the event logged after them waits in the next batch
C26_Witness ==
    /\ Len(bFlushes) = 1
    /\ bFlushes[1] = [events |-> [i \in 1..BatchSize |-> i], by |-> "size"]
    /\ bLogged = BatchSize + 1
    /\ bBuf = <<BatchSize + 1>>

\* the events flushed, then those in the batch,
\* then those on the channel are the events logged, each once and in order
C27_NoLossNoDuplicate ==
    FlushedEvents(bFlushes) \o bBuf \o bChan = [i \in 1..bLogged |-> i]

C28_APLRejected ==
    qKind = APL =>
        /\ qBuilt = 0 /\ qSent = 0 /\ qRes = "nil"
        /\ qPc \in {"start", "returned"}
        /\ qPc = "returned" =>
            qErr = <<"invalid query kind", "apl", "must be", "analytics", "or", "stream">>

\* QueryLegacy with the save kind APL has returned
C28_Witness == qKind = APL /\ qPc = "returned" /\ qErr # "nil"

(***************************************************************************)
(* The background producers.                                               *)
(***************************************************************************)

\* the producers that are running
ProducersAlive == IF prodPc \in {"none", "done"} THEN 0 ELSE 1

\* the slice and channel ingest calls that have started
PipeCallsStarted == IF HasPipe /\ pc # "start" THEN 1 ELSE 0

\* C29: a call starts at most one producer: Ingest and IngestEvents with no
\* events start none, IngestEvents with events and IngestChannel have
\* started exactly one once they are past their start, and no more producers
\* are alive than slice and channel calls have started
C29_OneProducerPerCall ==
    /\ prodStarts <= 1
    /\ (callKind = "Ingest" \/ (callKind = "IngestEvents" /\ events = <<>>)) =>
        prodStarts = 0 /\ prodPc = "none"
    /\ (pc # "start" /\ (callKind = "IngestChannel" \/ (callKind = "IngestEvents" /\ events # <<>>))) =>
        prodStarts = 1
    /\ ProducersAlive <= PipeCallsStarted
    /\ ProducersAlive <= prodStarts

\* IngestEvents with events has returned after its one producer finished
C29_Witness ==
    /\ callKind = "IngestEvents" /\ events # <<>>
    /\ pc = "returned" /\ prodPc = "done" /\ prodStarts = 1

\* IngestEvents with no events and Ingest have returned with no producer
C29_WitnessNone ==
    /\ pc = "returned" /\ prodStarts = 0
    /\ callKind \in {"Ingest", "IngestEvents"}

(***************************************************************************)
(* Two concurrent calls.                                                   *)
(***************************************************************************)

\* C30: whatever the interleaving of two concurrent IngestEvents /
\* IngestChannel calls, each has its own pipe and its own producer, the body
\* the server reads for a call is exactly the events of that call, in order,
\* and the status a call returns is the one of the response to its own
\* request
C30_CallsIsolated ==
    /\ \A c \in Calls :
        /\ tPc[c] \in {"responded", "returned"} /\ tReqBody[c] # 0 =>
            /\ tBody[c] = tEvents[c]
            /\ tResp[c].ingested + tResp[c].failed = Len(tEvents[c])
        /\ tPc[c] = "returned" /\ tReqBody[c] # 0 => tRet[c] = tResp[c]
        /\ tPw[c] # 0 => tPipes[tPw[c]].data = Take(tEvents[c], tIdx[c])
    /\ \A c, d \in Calls : c # d /\ tPw[c] # 0 => tPw[c] # tPw[d]

\* both calls have returned, with different events and different statuses,
\* and the producer of the second call finished before the one of the first
\* wrote its last event
C30_Witness ==
    /\ tPc = [c \in Calls |-> "returned"]
    /\ tKind = (1 :> "IngestEvents" @@ 2 :> "IngestChannel")
    /\ tEvents = (1 :> <<"a", "b">> @@ 2 :> <<"b">>)
    /\ tPw = (1 :> 2 @@ 2 :> 1)
    /\ tRet = (1 :> TwoStatus(2, 1) @@ 2 :> TwoStatus(1, 0))

(***************************************************************************)
(* Termination of Do.                                                      *)
(***************************************************************************)

\* the most attempts the budget leaves room for: the shortest wait before
\* each retry is half the current interval
RECURSIVE MostAttempts(_, _)
MostAttempts(t, cur) ==
    IF t + cur \div 2 > MaxElapsedTime THEN 1
    ELSE 1 + MostAttempts(t + cur \div 2, cur * Multiplier)

\* control has left Do: it returned, or it was left by the panic on a null
\* error body
DoEnded == pc \in {"returned", "panicked"}

RetriedAttemptEnded ==
    /\ HasPipe /\ attempts >= 2
    /\ pc \in {"backoff", "final"}
    /\ err \notin {ErrTransport, ErrContextCanceled}

\* C32 as stated: an attempt after the first one transmits the complete
\* body, the encoded events of the call in order, and not an empty, partial
\* or already consumed one
C32_RetrySendsFullBody ==
    (RetriedAttemptEnded /\ events # <<>> /\ \A i \in 1..Len(events) : Marshalable(events[i])) =>
        /\ wire # <<>>
        /\ CompleteFrame(wire)
        /\ ParseNDJSON(Decompress(wire)) = events

\* what the code does: the transport closed the pipe's read side when the
\* first attempt ended, so an attempt after the first one transmits nothing
\* and, unless the connection fails first, ends with the closed pipe's error
C32_RetrySendsNothing ==
    /\ (HasPipe /\ attempts >= 2) => wire = <<>> /\ pipeRErr
    /\ RetriedAttemptEnded => err = ErrClosedPipe

\* a slice call whose first attempt was answered with a status >= 500 after
\* the whole body was read has ended its second attempt with the closed
\* pipe's error
C32_Witness ==
    /\ callKind = "IngestEvents" /\ events = <<"e1", "e2">>
    /\ attempts = 2 /\ pc = "backoff"
    /\ resp.id = 1 /\ resp.status = 500
    /\ encoded = events
    /\ err = ErrClosedPipe /\ wire = <<>>

(***************************************************************************)
(* A final attempt after retries.                                          *)
(***************************************************************************)

\* Do returned after a retried attempt was answered with a status < 500
ReturnedAfterRetry ==
    /\ pc = "returned"
    /\ attempts >= 2
    /\ last.kind = "resp" /\ last.status < 500

\* C33: when a retried attempt is answered with a status < 500, what Do
\* returns is what that response alone gives: the response is the one of the
\* final attempt, and the value and the error are those the response's status
\* and content map to, never the error of an earlier attempt
C33_FinalAttemptDecides ==
    ReturnedAfterRetry =>
        /\ doRet.resp = resp
        /\ resp.id = attempts /\ resp.status = last.status
        /\ doRet.err = FinalResponse(content).err
        /\ doRet.detail = FinalResponse(content).detail
        /\ vOut = FinalResponse(content).out
        /\ doRet.err \notin {ErrStatusCode, ErrTransport, ErrClosedPipe, ErrContextCanceled}

\* the first attempt was answered with a status >= 500, whose body is still
\* open, and the second with 200: Do returned no error
C33_Witness ==
    /\ ReturnedAfterRetry
    /\ attempts = 2 /\ openBodies = {1}
    /\ resp.status = 200
    /\ doRet.err = "nil"

(***************************************************************************)
(* The producer of a call that returned before sending.                    *)
(***************************************************************************)

\* a step of the producer, or the read of the pipe that lets its write
\* return
ProducerCanStep ==
    \/ ENABLED ProdNewWriter
    \/ ENABLED ProdEncodeNext
    \/ ENABLED ProdRangeEnd
    \/ ENABLED ProdReceive
    \/ ENABLED ProdReceiveClosed
    \/ ENABLED ProdWriteClosedPipe
    \/ ENABLED ProdCloseWriter
    \/ ENABLED ProdClosePipe
    \/ ENABLED TransportRead

\* the slice or channel call returned the error of NewRequest: no request
\* was built, Do was never entered
ReturnedBeforeSending == HasPipe /\ pc = "returned" /\ ~req /\ ret.err # "nil"

\* C34 as stated: after IngestEvents or IngestChannel returned the error of
\* the request construction, its producer is never blocked for good in a
\* write to the pipe that nobody reads: it is not in pw.Write, or the write
\* can return.  (A producer of IngestChannel that waits for the caller's
\* channel is not counted.)
C34_ProducerNotBlocked ==
    ReturnedBeforeSending => (prodPc # "write" \/ ProducerCanStep)

\* what the code does: such a producer ends only if it has nothing to
\* write; with anything to write it stays in pw.Write, which nothing reads
\* and nothing closes
C34_BlockedInWrite ==
    (ReturnedBeforeSending /\ prodPc = "write") =>
        /\ ~ProducerCanStep
        /\ ~pipeRErr /\ pipeWErr = "open"

\* IngestEvents with an API token and an id that takes the path off the
\* allow list returned ErrUnprivilegedToken; its producer encoded the event
\* and waits in pw.Write
C34_Witness ==
    /\ callKind = "IngestEvents" /\ events = <<"e1">>
    /\ IsAPIToken(token)
    /\ ReturnedBeforeSending /\ ret.err = ErrUnprivilegedToken
    /\ prodPc = "write" /\ ~ProducerCanStep

(***************************************************************************)
(* The events channel of IngestChannel.                                    *)
(***************************************************************************)

\* the producer of IngestChannel is past its range loop
LeftRangeLoop == callKind = "IngestChannel" /\ prodPc \in {"close", "closePipe", "done"}

\* C35 as stated: the producer of IngestChannel keeps receiving until the
\* channel is closed, on every path: when it is past its loop, no event the
\* sender still has to send is left without a receiver
C35_SenderNeverBlocked ==
    LeftRangeLoop => chIdx = Len(events)

\* what the code does: the loop is left on the closed channel or on the
\* first error of Encode, be it the event that does not serialize or the
\* write to a pipe whose reader is gone
C35_LeftOnCloseOrError ==
    LeftRangeLoop => (chClosed \/ encErr # "nil")

\* the first event did not serialize: the producer has ended, and the
\* sender's second event has no receiver
C35_Witness ==
    /\ callKind = "IngestChannel" /\ events = <<"bad", "e1">>
    /\ prodPc = "done" /\ encErr = ErrUnsupportedType
    /\ chIdx = 1 /\ ~chClosed
    /\ pc = "returned"

(***************************************************************************)
(* Tracing.                                                                *)
(***************************************************************************)

\* C36: spanError returns the error it was given, nil for nil, and an
\* ingest call returns what its body came to, whether the span is recording
\* or not; only a recording span keeps the error, and a span that is not
\* recording is left as it was started
C36_TracingKeepsResult ==
    sPc = "returned" =>
        /\ sRet.err = sOutcome.err
        /\ sRet.res = sOutcome.res
        /\ sSpan.errors = (IF sRecording /\ sOutcome.err # "nil" THEN <<sOutcome.err>> ELSE <<>>)
        /\ ~sRecording => sSpan = [NewSpan EXCEPT !.ended = (sKind # "spanError")]

\* Ingest returned the error of Do on a span that is not recording
C36_Witness ==
    /\ sKind = "Ingest" /\ ~sRecording
    /\ sPc = "returned"
    /\ sOutcome.site = "Do"
    /\ sRet = [res |-> NilStatus, err |-> ErrNotFound]

\* IngestChannel returned a status with a failure on a recording span
C36_WitnessRecorded ==
    /\ sKind = "IngestChannel" /\ sRecording
    /\ sPc = "returned"
    /\ sRet = [res |-> StatusWith(1, <<1>>), err |-> "nil"]
    /\ sSpan.attributes # "none"

(***************************************************************************)
(* NewClient.                                                              *)
(***************************************************************************)

\* C37: whenever NewClient returns an error it returns no client: when an
\* option fails, when the environment cannot be incorporated and when the
\* validation of the configuration fails
C37_NilClientOnError ==
    nPc = "returned" /\ nRet.err # "nil" => nRet.client = "nil"

\* what NewClient does: no client with the error of an option or of the
\* environment, the client together with the error of the validation
C37_ClientWithValidationError ==
    nPc = "returned" =>
        (nRet.client = "nil" <=> nRet.err \in {ErrOption, ErrEnvironment})

\* NewClient returned the client with ErrMissingAccessToken
C37_Witness ==
    /\ nPc = "returned"
    /\ nRet = [client |-> "client", err |-> ErrMissingAccessToken]

(***************************************************************************)
(* ValidateCredentials.                                                    *)
(***************************************************************************)

\* C38: with a token that is not a personal token ValidateCredentials
\* returns nil and neither builds nor sends a request; with a personal token
\* it makes exactly one current-user call and returns the error of that call
C38_OnlyPersonalTokenChecked ==
    /\ vToken # "personal" => vCalls = 0 /\ vRequests = 0 /\ vSent = 0
    /\ vPc = "returned" =>
        IF vToken = "personal"
        THEN vCalls = 1 /\ vRet = vOutcome.err
        ELSE vRet = "nil"

\* with a personal token the current-user call was refused and
\* ValidateCredentials returned its error
C38_Witness ==
    /\ vToken = "personal"
    /\ vPc = "returned"
    /\ vCalls = 1
    /\ vRet = ErrUnauthenticated

\* with an API token ValidateCredentials returned nil without a request
C38_WitnessAPI ==
    /\ vToken = "api"
    /\ vPc = "returned"
    /\ vRequests = 0
    /\ vRet = "nil"

(***************************************************************************)
(* Plan.                                                                   *)
(***************************************************************************)

\* C39: for each of the empty plan, Hobby, Basic, Enterprise and Comped,
\* planFromString of its String and UnmarshalJSON of its MarshalJSON give
\* the plan back without an error; every string that is not the String of
\* one of them makes planFromString, and UnmarshalJSON of its JSON, fail
\* with the unknown-plan error
C39_PlanRoundTrip ==
    pPc = "returned" =>
        /\ pKind \in {"String", "MarshalJSON"} /\ pPlan \in {0, 1, 2, 3, 4} =>
                pRet = [plan |-> pPlan, err |-> "nil"]
        /\ pKind \in {"planFromString", "UnmarshalJSON"}
           /\ pText \notin {<<>>, <<"h", "o", "b", "b", "y">>, <<"b", "a", "s", "i", "c">>,
                             <<"e", "n", "t", "e", "r", "p", "r", "i", "s", "e">>,
                             <<"c", "o", "m", "p", "e", "d">>} =>
                pRet = [plan |-> 0, err |-> ErrUnknownPlan]

\* Enterprise came back from its JSON text
C39_Witness ==
    /\ pKind = "MarshalJSON" /\ pPlan = Enterprise
    /\ pPc = "returned"
    /\ pMid = <<"\"">> \o <<"e", "n", "t", "e", "r", "p", "r", "i", "s", "e">> \o <<"\"">>
    /\ pRet = [plan |-> Enterprise, err |-> "nil"]

\* UnmarshalJSON refused the JSON of a string with a quote in it
C39_WitnessUnknown ==
    /\ pKind = "UnmarshalJSON" /\ pText = <<"h", "o", "\"", "b", "b", "y">>
    /\ pPc = "returned"
    /\ pRet.err = ErrUnknownPlan

====
